------------------------------ MODULE Spec2Model ------------------------------
(***************************************************************************)
(* A model of the torrent-to-library reconciliation engine of the          *)
(* Jellyfin Library Manager: the tracked-torrent store (database.py), the  *)
(* merge of the store with the daemon listing, the layout planner, the     *)
(* linker and the auto-add cycle (torrent_manager.py), and the removal     *)
(* operations (anime_manager.py, torrent_manager.py).                      *)
(*                                                                         *)
(* Text (titles, file names, folder names, hashes) is a sequence of        *)
(* one-character strings; a path is a sequence of such components.         *)
(***************************************************************************)
EXTENDS Integers, Sequences, FiniteSets, TLC

VARIABLES
  db,    \* the "torrents" list of torrent_database.json
  library,  \* the library tree: [dirs, links, tracks]
  qb,    \* what the daemon answers: [reachable, login, torrents]
  disk,  \* the download area: existing download folder |-> its files in walk order
  called,   \* the last operation called, with what it returned
  inflight, \* thread |-> the store operation it is in, with the records it loaded
  monitor,  \* the background monitor: [running, main, loops]
  request   \* the daemon request in progress, with its attempts and waits

vars ==
  <<db, library, qb, disk, called, inflight, monitor, request>>

\* ------------------------------------------------------------------ text

UpperLetters ==
  <<"A","B","C","D","E","F","G","H","I","J","K","L","M",
    "N","O","P","Q","R","S","T","U","V","W","X","Y","Z">>

LowerLetters ==
  <<"a","b","c","d","e","f","g","h","i","j","k","l","m",
    "n","o","p","q","r","s","t","u","v","w","x","y","z">>

Digits ==
  <<"0","1","2","3","4","5","6","7","8","9">>

\* upper-case letter |-> lower-case letter
LowerOf ==
  [c \in {UpperLetters[i] : i \in 1..Len(UpperLetters)} |->
     LowerLetters[CHOOSE i \in 1..Len(UpperLetters) : UpperLetters[i] = c]]

\* str.lower() on one character
LowerChar(c) ==
  IF c \in DOMAIN LowerOf THEN LowerOf[c] ELSE c

\* str.lower()
Lower(s) ==
  [i \in 1..Len(s) |-> LowerChar(s[i])]

\* digit character |-> its value
DigitValue ==
  [c \in {Digits[i] : i \in 1..Len(Digits)} |->
     (CHOOSE i \in 1..Len(Digits) : Digits[i] = c) - 1]

IsDigit(c) ==
  c \in DOMAIN DigitValue

DigitVal(c) ==
  DigitValue[c]

\* int(s) for a string of decimal digits
RECURSIVE ParseInt(_)
ParseInt(s) ==
  IF Len(s) = 0 THEN 0
  ELSE 10 * ParseInt(SubSeq(s, 1, Len(s) - 1)) + DigitVal(s[Len(s)])

\* str(n) for n >= 0
RECURSIVE IntToStr(_)
IntToStr(n) ==
  IF n < 10 THEN <<Digits[n + 1]>>
  ELSE IntToStr(n \div 10) \o <<Digits[(n % 10) + 1]>>

\* f'{n:02d}'
Format02d(n) ==
  IF n < 10 THEN <<"0">> \o IntToStr(n) ELSE IntToStr(n)

\* the literal lit (lower case) occurs in s at position i, ignoring case
MatchLit(s, i, lit) ==
  /\ i >= 1
  /\ i + Len(lit) - 1 <= Len(s)
  /\ \A k \in 1..Len(lit) : LowerChar(s[i + k - 1]) = lit[k]

\* the length of the run of digits of s that starts at position i
RECURSIVE DigitRun(_, _)
DigitRun(s, i) ==
  IF i >= 1 /\ i <= Len(s) /\ IsDigit(s[i]) THEN 1 + DigitRun(s, i + 1) ELSE 0

\* str.endswith(suffix) on the lower-cased name
EndsWith(s, suffix) ==
  /\ Len(suffix) <= Len(s)
  /\ SubSeq(Lower(s), Len(s) - Len(suffix) + 1, Len(s)) = suffix

\* the characters re.sub replaces in sanitize_filename: \ / : * ? " < > |
ForbiddenChars ==
  {"\\", "/", ":", "*", "?", "\"", "<", ">", "|"}

\* str.strip(): drop leading and trailing blanks
RECURSIVE Strip(_)
Strip(s) ==
  IF Len(s) = 0 THEN s
  ELSE IF s[1] = " " THEN Strip(Tail(s))
  ELSE IF s[Len(s)] = " " THEN Strip(SubSeq(s, 1, Len(s) - 1))
  ELSE s

sanitize_filename(name) ==
  Strip([i \in 1..Len(name) |-> IF name[i] \in ForbiddenChars THEN " " ELSE name[i]])


\* ------------------------------------------------- names used by the code

VIDEO_EXTENSIONS ==
  { <<".","m","k","v">>, <<".","m","p","4">>, <<".","a","v","i">> }

\* utils.is_episode_file
is_episode_file(file) ==
  \E ext \in VIDEO_EXTENSIONS : EndsWith(file, ext)

\* 'Unknown Anime', the default of anilist_info.get('title', ...)
UnknownAnime ==
  <<"U","n","k","n","o","w","n"," ","A","n","i","m","e">>

SeasonWord ==
  <<"S","e","a","s","o","n"," ">>

MoviesName ==
  <<"M","o","v","i","e","s">>

TrackJson ==
  <<"t","r","a","c","k",".","j","s","o","n">>

\* f'Season {n:02d}'
SeasonName(n) ==
  SeasonWord \o Format02d(n)

\* --------------------------------------------------------------- regexes

SeasonSeparators ==
  {" ", "_", "-"}

\* season_regex = (season[ _-]?(\d+)|s(\d{1,2}))(?!\d), IGNORECASE, tried at
\* position i: the digits of group 2 or group 3, or <<>> when there is no
\* match at i
SeasonAt(s, i) ==
  LET lit == <<"s","e","a","s","o","n">>
      j   == i + Len(lit)
  IN  IF MatchLit(s, i, lit) /\ j <= Len(s) /\ s[j] \in SeasonSeparators
           /\ DigitRun(s, j + 1) > 0
        THEN SubSeq(s, j + 1, j + DigitRun(s, j + 1))
      ELSE IF MatchLit(s, i, lit) /\ DigitRun(s, j) > 0
        THEN SubSeq(s, j, j + DigitRun(s, j) - 1)
      ELSE IF MatchLit(s, i, <<"s">>) /\ DigitRun(s, i + 1) \in {1, 2}
        THEN SubSeq(s, i + 1, i + DigitRun(s, i + 1))
      ELSE <<>>

\* season_regex.search(s): [found, num] with num = group(2) or group(3) of the
\* leftmost match
season_regex(s) ==
  LET hits == {i \in 1..Len(s) : SeasonAt(s, i) # <<>>}
  IN  IF hits = {} THEN [found |-> FALSE, num |-> <<>>]
      ELSE LET first == CHOOSE i \in hits : \A k \in hits : i <= k
           IN  [found |-> TRUE, num |-> SeasonAt(s, first)]

SpecialsTokens ==
  { <<"s","p","e","c","i","a","l">>, <<"e","x","t","r","a">>, <<"o","v","a">>,
    <<"s","p">>, <<"n","c","e","d">>, <<"n","c","o","p">>, <<"s","0","0">> }

\* specials_regex.search(s) is not None
specials_regex(s) ==
  \E i \in 1..Len(s) : \E lit \in SpecialsTokens : MatchLit(s, i, lit)


\* ----------------------------------------------------------------- paths

\* config.ANIME_FOLDER (D:\Anime) as the components below the drive root
AnimeName ==
  <<"A","n","i","m","e">>

get_anime_folder ==
  <<AnimeName>>

\* os.path.join(path, name) for a name without separators
Join(path, name) ==
  Append(path, name)

\* os.path.abspath / the file system's own resolution of a joined path: empty
\* and '.' components vanish, '..' drops the component before it
RECURSIVE Norm(_)
Norm(path) ==
  IF Len(path) = 0 THEN path
  ELSE LET front == Norm(SubSeq(path, 1, Len(path) - 1))
           last  == path[Len(path)]
       IN  IF last = <<>> \/ last = <<".">> THEN front
           ELSE IF last = <<".", ".">>
             THEN (IF Len(front) = 0 THEN front ELSE SubSeq(front, 1, Len(front) - 1))
           ELSE Append(front, last)

\* path a is path b or an ancestor of it
IsPrefix(a, b) ==
  Len(a) <= Len(b) /\ SubSeq(b, 1, Len(a)) = a

\* a path and all its ancestors (what os.makedirs creates)
Ancestors(path) ==
  {SubSeq(path, 1, n) : n \in 0..Len(path)}

\* --------------------------------------------------------------- planner

\* the sentinel of a record without anilist_info.title
MissingTitle ==
  <<"<missing>">>

\* anilist_info.get('title', 'Unknown Anime')
TitleOrDefault(torrent) ==
  IF torrent.title = MissingTitle THEN UnknownAnime ELSE torrent.title

\* os.path.join(get_anime_folder(), sanitize_filename(title))
anime_main_folder(torrent) ==
  Join(get_anime_folder, sanitize_filename(TitleOrDefault(torrent)))

\* 40 * 60
MovieThreshold ==
  2400

\* IsMovie with 'at least' in place of 'more than'
IsMovieAtLeast(file) ==
  file.duration.ok /\ file.duration.secs >= MovieThreshold

\* duration and duration > 40 * 60, duration None when the probe failed
IsMovie(file) ==
  file.duration.ok /\ file.duration.secs # 0 /\ file.duration.secs > MovieThreshold

\* the loop over the parent folders taken from the download folder downwards
RECURSIVE FolderMatchOutermost(_, _)
FolderMatchOutermost(rel_parts, i) ==
  IF i = 0 THEN <<>>
  ELSE LET m == season_regex(rel_parts[Len(rel_parts) + 1 - i])
       IN  IF m.found /\ m.num # <<>> THEN SeasonName(ParseInt(m.num))
           ELSE IF specials_regex(rel_parts[Len(rel_parts) + 1 - i]) THEN SeasonName(0)
           ELSE FolderMatchOutermost(rel_parts, i - 1)

\* the loop over the parent folders, deepest first: the folder name chosen by
\* the first folder that matches the season or the specials pattern, <<>> if none
RECURSIVE FolderMatch(_, _)
FolderMatch(rel_parts, i) ==
  IF i = 0 THEN <<>>
  ELSE LET m == season_regex(rel_parts[i])
       IN  IF m.found /\ m.num # <<>> THEN SeasonName(ParseInt(m.num))
           ELSE IF specials_regex(rel_parts[i]) THEN SeasonName(0)
           ELSE FolderMatch(rel_parts, i - 1)

\* the file-name step: season pattern first, then specials
FileNameMatch(file) ==
  LET m == season_regex(file)
  IN  IF m.found THEN (IF m.num # <<>> THEN SeasonName(ParseInt(m.num)) ELSE <<>>)
      ELSE IF specials_regex(file) THEN SeasonName(0)
      ELSE <<>>

\* the routing with specials as the default
TargetFolderNameSpecials(file) ==
  IF IsMovie(file) THEN MoviesName
  ELSE IF FolderMatch(file.dir, Len(file.dir)) # <<>> THEN FolderMatch(file.dir, Len(file.dir))
  ELSE IF FileNameMatch(file.name) # <<>> THEN FileNameMatch(file.name)
  ELSE SeasonName(0)

\* the name of the folder below the title folder a video file is routed to
TargetFolderName(file) ==
  IF IsMovie(file) THEN MoviesName
  ELSE LET byFolder == FolderMatch(file.dir, Len(file.dir))
       IN  IF byFolder # <<>> THEN byFolder
           ELSE IF FileNameMatch(file.name) # <<>> THEN FileNameMatch(file.name)
           ELSE SeasonName(1)

\* folder_map.setdefault(folder, []).append(entry), insertion order kept
MapAppend(folder_map, folder, entry) ==
  IF \E k \in 1..Len(folder_map) : folder_map[k].path = folder
    THEN [k \in 1..Len(folder_map) |->
            IF folder_map[k].path = folder
              THEN [folder_map[k] EXCEPT !.files = Append(@, entry)]
              ELSE folder_map[k]]
    ELSE Append(folder_map, [path |-> folder, files |-> <<entry>>])

\* WalkFile without the test of the extension
WalkFileAnyFile(file, download_path, main_folder, folder_map) ==
  LET source == (download_path \o file.dir) \o <<file.name>>
      folder == Join(main_folder, TargetFolderName(file))
      entry  == [source |-> source, target |-> Join(folder, file.name)]
  IN  MapAppend(folder_map, folder, entry)

\* one step of the walk: the folder map after this file
WalkFile(file, download_path, main_folder, folder_map) ==
  LET source == (download_path \o file.dir) \o <<file.name>>
      folder == Join(main_folder, TargetFolderName(file))
      entry  == [source |-> source, target |-> Join(folder, file.name)]
  IN  IF ~is_episode_file(file.name) THEN folder_map
      ELSE MapAppend(folder_map, folder, entry)

\* the walk of the download folder, files in os.walk order: the folder map
\* after the first n files
RECURSIVE WalkFiles(_, _, _, _)
WalkFiles(files, n, download_path, main_folder) ==
  IF n = 0 THEN <<>>
  ELSE CHOOSE after \in
         {WalkFile(files[n], download_path, main_folder, before) :
            before \in {WalkFiles(files, n - 1, download_path, main_folder)}} : TRUE

\* what os.walk(download_path) yields: the files of the folder, or nothing
\* when the folder cannot be listed (os.walk ignores the error of scandir)
Walk(dl, download_path, listable) ==
  IF listable THEN dl[download_path] ELSE <<>>

\* TorrentManager.sort_torrent_files_for_jellyfin; listing is what os.walk
\* yields for download_path. none is whether the function returns None: its
\* one return statement returns the file structure
sort_torrent_files_for_jellyfin(torrent, download_path, listing) ==
  [none    |-> FALSE,
   root    |-> anime_main_folder(torrent),
   folders |-> WalkFiles(listing, Len(listing), download_path, anime_main_folder(torrent))]


\* ----------------------------------------------------------------- store

\* the value of a path field a record does not have
NoPath ==
  << <<"<none>">> >>

\* 'Default', the download_path of a record added without one
DefaultPath ==
  << <<"D","e","f","a","u","l","t">> >>

\* TorrentDatabase.add_torrent: the torrents list after the append
add_torrent(torrents, torrent_info) ==
  Append(torrents,
         [id                   |-> Len(torrents) + 1,
          infohash             |-> torrent_info.infohash,
          title                |-> torrent_info.title,
          download_path        |-> torrent_info.download_path,
          status               |-> "added",
          source_download_path |-> NoPath,
          library_path         |-> NoPath])

\* the index of the first record with this id, 0 if there is none
FirstWithId(torrents, torrent_id) ==
  IF \E k \in 1..Len(torrents) : torrents[k].id = torrent_id
    THEN CHOOSE k \in 1..Len(torrents) :
           /\ torrents[k].id = torrent_id
           /\ \A j \in 1..(k - 1) : torrents[j].id # torrent_id
    ELSE 0

\* TorrentDatabase.update_torrent_status: the loop sets the first record with
\* this id and breaks
update_torrent_status(torrents, torrent_id, status) ==
  LET k == FirstWithId(torrents, torrent_id)
  IN  IF k = 0 THEN torrents ELSE [torrents EXCEPT ![k].status = status]

\* update_torrent_paths, imported by torrent_manager.py from database.py
update_torrent_paths(torrents, torrent_id, source_download_path, library_path) ==
  LET k == FirstWithId(torrents, torrent_id)
  IN  IF k = 0 THEN torrents
      ELSE [torrents EXCEPT ![k].source_download_path = source_download_path,
                            ![k].library_path = library_path]

\* the list comprehension [t for t in seq if keep(t)]
RECURSIVE FilterOutHash(_, _)
FilterOutHash(torrents, infohash) ==
  IF Len(torrents) = 0 THEN torrents
  ELSE IF Head(torrents).infohash # infohash
    THEN <<Head(torrents)>> \o FilterOutHash(Tail(torrents), infohash)
    ELSE FilterOutHash(Tail(torrents), infohash)

\* TorrentDatabase.remove_torrents_by_infohash
remove_torrents_by_infohash(torrents, infohash) ==
  FilterOutHash(torrents, infohash)

\* ------------------------------------------------------------------ sync

\* QbMatch comparing the hashes as they are written
QbMatchExact(qb_torrents, tracked) ==
  IF \E k \in 1..Len(qb_torrents) : qb_torrents[k].hash = tracked.infohash
    THEN CHOOSE k \in 1..Len(qb_torrents) :
           /\ qb_torrents[k].hash = tracked.infohash
           /\ \A j \in 1..(k - 1) : qb_torrents[j].hash # tracked.infohash
    ELSE 0

\* the first daemon torrent whose hash equals the tracked infohash, both
\* lower-cased; 0 if there is none
QbMatch(qb_torrents, tracked) ==
  IF \E k \in 1..Len(qb_torrents) : Lower(qb_torrents[k].hash) = Lower(tracked.infohash)
    THEN CHOOSE k \in 1..Len(qb_torrents) :
           /\ Lower(qb_torrents[k].hash) = Lower(tracked.infohash)
           /\ \A j \in 1..(k - 1) : Lower(qb_torrents[j].hash) # Lower(tracked.infohash)
    ELSE 0

\* synced_torrent = tracked.copy(); synced_torrent.update({...})
SyncedTorrent(tracked, qb_torrents) ==
  LET k == QbMatch(qb_torrents, tracked)
  IN  IF k # 0
        THEN [id |-> tracked.id, infohash |-> tracked.infohash, title |-> tracked.title,
              download_path |-> tracked.download_path, status |-> tracked.status,
              source_download_path |-> tracked.source_download_path,
              library_path |-> tracked.library_path,
              qb_status    |-> qb_torrents[k].state,
              qb_progress  |-> qb_torrents[k].progress * 100,
              qb_name      |-> qb_torrents[k].name,
              qb_save_path |-> qb_torrents[k].save_path,
              found_in_qb  |-> TRUE]
        ELSE [id |-> tracked.id, infohash |-> tracked.infohash, title |-> tracked.title,
              download_path |-> tracked.download_path, status |-> tracked.status,
              source_download_path |-> tracked.source_download_path,
              library_path |-> tracked.library_path,
              qb_status    |-> "not_found",
              qb_progress  |-> 0,
              qb_name      |-> <<>>,
              qb_save_path |-> <<>>,
              found_in_qb  |-> FALSE]

\* sync without the reachability check at its start
SyncWithoutProbe(torrents, daemon) ==
  IF ~daemon.login
    THEN [none |-> TRUE, synced |-> <<>>,
          error |-> "Failed to authenticate with qBittorrent",
          calls |-> <<"qb_login">>]
  ELSE IF Len(daemon.torrents) = 0
    THEN [none |-> FALSE, synced |-> <<>>, error |-> "No torrents found in qBittorrent",
          calls |-> <<"qb_login", "qb_get_torrent_info">>]
  ELSE [none |-> FALSE,
        synced |-> [i \in 1..Len(torrents) |-> SyncedTorrent(torrents[i], daemon.torrents)],
        error |-> "",
        calls |-> <<"qb_login", "qb_get_torrent_info", "get_tracked_torrents">>]

\* TorrentManager.sync_torrents_with_qbittorrent. daemon is what the daemon
\* answers: reachable (the health probe of sync), login (the probe and the
\* request of qb_login), torrents (the listing). none is the Python None of
\* the first result, error "" the None of the second
sync_torrents_with_qbittorrent(torrents, daemon) ==
  IF ~daemon.reachable
    THEN [none |-> TRUE, synced |-> <<>>, error |-> "qBittorrent not accessible",
          calls |-> <<"qb_check_connection">>]
  ELSE IF ~daemon.login
    THEN [none |-> TRUE, synced |-> <<>>,
          error |-> "Failed to authenticate with qBittorrent",
          calls |-> <<"qb_check_connection", "qb_login">>]
  ELSE IF Len(daemon.torrents) = 0
    THEN [none |-> FALSE, synced |-> <<>>, error |-> "No torrents found in qBittorrent",
          calls |-> <<"qb_check_connection", "qb_login", "qb_get_torrent_info">>]
  ELSE [none |-> FALSE,
        synced |-> [i \in 1..Len(torrents) |-> SyncedTorrent(torrents[i], daemon.torrents)],
        error |-> "",
        calls |-> <<"qb_check_connection", "qb_login", "qb_get_torrent_info",
                    "get_tracked_torrents">>]

\* the store after a sync that saved the merged status into each record
StoreAfterSyncMerged(torrents, daemon) ==
  [i \in 1..Len(torrents) |->
     [torrents[i] EXCEPT !.status = SyncedTorrent(torrents[i], daemon.torrents).qb_status]]

\* the store after sync_torrents_with_qbittorrent: the records are read
\* through get_tracked_torrents, the merge is made on a copy of each, and no
\* path of the function saves
StoreAfterSync(torrents, daemon) ==
  torrents

\* ---------------------------------------------------------------- linker

\* The library file system is [dirs, links, tracks]: the directories, the
\* symlinks [target, source] and the track.json files [folder, data], all
\* under resolved paths. io is what the file system refuses during one call:
\* mkdir_fail (folders os.makedirs cannot create), link_fail (file names
\* os.symlink fails for), track_fail (track.json cannot be written).

\* os.path.exists(path)
PathExists(fs, path) ==
  \/ Norm(path) \in fs.dirs
  \/ \E l \in fs.links : l.target = Norm(path)
  \/ \E t \in fs.tracks : Join(t.folder, TrackJson) = Norm(path)

\* os.makedirs(path, exist_ok=True) raises: never for a directory that exists
MakedirsFails(fs, path, io) ==
  Norm(path) \notin fs.dirs /\ Norm(path) \in io.mkdir_fail

\* LinkFile without the test for a target that exists: the link is made anew
LinkFileAnew(file_entry, io, out) ==
  IF file_entry.target[Len(file_entry.target)] \in io.link_fail
    THEN [out EXCEPT !.failed = @ \cup {Norm(file_entry.target)}]
  ELSE [out EXCEPT !.linked = @ + 1,
                   !.created = @ \cup {Norm(file_entry.target)},
                   !.fs.links = {l \in @ : l.target # Norm(file_entry.target)}
                                  \cup {[target |-> Norm(file_entry.target),
                                         source |-> file_entry.source]}]

\* one file of a folder: out is [fs, linked, created, existing, failed,
\* aborted]
LinkFile(file_entry, io, out) ==
  IF PathExists(out.fs, file_entry.target)
    THEN [out EXCEPT !.linked = @ + 1,
                     !.existing = @ \cup {Norm(file_entry.target)}]
  ELSE IF file_entry.target[Len(file_entry.target)] \in io.link_fail
    THEN [out EXCEPT !.failed = @ \cup {Norm(file_entry.target)}]
  ELSE [out EXCEPT !.linked = @ + 1,
                   !.created = @ \cup {Norm(file_entry.target)},
                   !.fs.links = @ \cup {[target |-> Norm(file_entry.target),
                                         source |-> file_entry.source]}]

\* the loop over the files of one folder, after the first n files
RECURSIVE LinkFiles(_, _, _, _)
LinkFiles(files, n, io, start) ==
  IF n = 0 THEN start
  ELSE CHOOSE after \in
         {LinkFile(files[n], io, before) :
            before \in {LinkFiles(files, n - 1, io, start)}} : TRUE

\* one folder of the plan: a folder that cannot be created ends the loop
\* (aborted), and nothing is done once it has ended
LinkFolder(folder, io, out) ==
  IF out.aborted THEN out
  ELSE IF MakedirsFails(out.fs, folder.path, io) THEN [out EXCEPT !.aborted = TRUE]
  ELSE CHOOSE after \in
         {LinkFiles(folder.files, Len(folder.files), io, made) :
            made \in {[out EXCEPT !.fs.dirs = @ \cup Ancestors(Norm(folder.path))]}} : TRUE

\* the loop over the folders of the plan, after the first n folders
RECURSIVE LinkFolders(_, _, _, _)
LinkFolders(folders, n, io, start) ==
  IF n = 0 THEN start
  ELSE CHOOSE after \in
         {LinkFolder(folders[n], io, before) :
            before \in {LinkFolders(folders, n - 1, io, start)}} : TRUE

\* track_torrent = torrent.copy() with the two setdefaults and library_path
TrackData(torrent, download_path, main_folder) ==
  [torrent EXCEPT
     !.source_download_path = IF @ = NoPath THEN download_path ELSE @,
     !.library_path = main_folder]

\* the write of track.json in the title folder
WriteTrack(fs, torrent, download_path, main_folder, io) ==
  IF io.track_fail \/ Norm(main_folder) \notin fs.dirs THEN fs
  ELSE [fs EXCEPT !.tracks =
          {t \in @ : t.folder # Norm(main_folder)}
            \cup {[folder |-> Norm(main_folder),
                   data   |-> TrackData(torrent, download_path, main_folder)]}]

\* ApplyResult returning False as soon as one symlink failed
ApplyResultStrict(out, torrent, download_path, file_structure, io) ==
  IF out.aborted \/ out.linked = 0 \/ out.failed # {}
    THEN [ok |-> FALSE, fs |-> out.fs, linked |-> out.linked,
          created |-> out.created, existing |-> out.existing,
          failed |-> out.failed, aborted |-> out.aborted, plan |-> file_structure]
    ELSE [ok |-> TRUE,
          fs |-> WriteTrack(out.fs, torrent, download_path, file_structure.root, io),
          linked |-> out.linked, created |-> out.created,
          existing |-> out.existing, failed |-> out.failed,
          aborted |-> FALSE, plan |-> file_structure]

\* the return of add_completed_torrent_to_library once the loops are done
ApplyResult(out, torrent, download_path, file_structure, io) ==
  IF out.aborted \/ out.linked = 0
    THEN [ok |-> FALSE, fs |-> out.fs, linked |-> out.linked,
          created |-> out.created, existing |-> out.existing,
          failed |-> out.failed, aborted |-> out.aborted, plan |-> file_structure]
    ELSE [ok |-> TRUE,
          fs |-> WriteTrack(out.fs, torrent, download_path, file_structure.root, io),
          linked |-> out.linked, created |-> out.created,
          existing |-> out.existing, failed |-> out.failed,
          aborted |-> FALSE, plan |-> file_structure]

\* the loops of add_completed_torrent_to_library over a plan, and its return
ApplyPlan(fs, torrent, download_path, file_structure, io) ==
  IF file_structure.none
    THEN [ok |-> FALSE, fs |-> fs, linked |-> 0, created |-> {}, existing |-> {},
          failed |-> {}, aborted |-> FALSE, plan |-> file_structure]
  ELSE
  CHOOSE res \in
    {ApplyResult(out, torrent, download_path, file_structure, io) :
       out \in {LinkFolders(file_structure.folders, Len(file_structure.folders), io,
                            [fs |-> fs, linked |-> 0, created |-> {}, existing |-> {},
                             failed |-> {}, aborted |-> FALSE])}} : TRUE

\* TorrentManager.add_completed_torrent_to_library: [ok, fs, linked, created,
\* existing, failed, aborted, plan]
add_completed_torrent_to_library(fs, torrent, download_path, listing, io) ==
  CHOOSE res \in
    {ApplyPlan(fs, torrent, download_path, file_structure, io) :
       file_structure \in {sort_torrent_files_for_jellyfin(torrent, download_path, listing)}} :
    TRUE

\* ------------------------------------------------------------ auto-add cycle

completed_states ==
  {"completedDL", "uploading", "stalledUP", "queuedUP"}

\* os.path.join(download_path, torrent_name)
full_torrent_path(torrent) ==
  Join(torrent.qb_save_path, torrent.qb_name)

\* the conditions under which the loop body reaches the call of
\* add_completed_torrent_to_library; dl is the download area, a function from
\* the folders that exist to their files
ReachesApply(torrent, dl) ==
  /\ torrent.found_in_qb
  /\ torrent.qb_status \in completed_states
  /\ torrent.status # "added_to_library"
  /\ torrent.title # MissingTitle /\ torrent.title # <<>>
  /\ torrent.qb_save_path # <<>> /\ torrent.qb_name # <<>>
  /\ full_torrent_path(torrent) \in DOMAIN dl

\* the body of the for loop for one synced torrent; st is [torrents, fs,
\* completed, applied, linked, partial]: the store, the library, the list
\* returned, and the indexes for which apply was called, returned true, and
\* returned true although a symlink failed
CycleStep(torrent, i, res, st) ==
  IF ~res.ok
    THEN [st EXCEPT !.fs = res.fs, !.applied = @ \cup {i}]
    ELSE [st EXCEPT
            !.fs = res.fs,
            !.applied = @ \cup {i},
            !.linked = @ \cup {i},
            !.partial = IF res.failed # {} THEN @ \cup {i} ELSE @,
            !.completed = Append(@, torrent),
            !.torrents =
               update_torrent_status(
                 update_torrent_paths(@, torrent.id, full_torrent_path(torrent),
                                      anime_main_folder(torrent)),
                 torrent.id, "added_to_library")]

CycleBody(torrent, i, dl, io, st) ==
  IF ~ReachesApply(torrent, dl) THEN st
  ELSE CHOOSE after \in
         {CycleStep(torrent, i, res, st) :
            res \in {add_completed_torrent_to_library(
                       st.fs, torrent, full_torrent_path(torrent),
                       dl[full_torrent_path(torrent)], io)}} : TRUE

\* the for loop over synced_torrents, after the first n of them
RECURSIVE CycleLoop(_, _, _, _, _)
CycleLoop(synced, n, dl, io, start) ==
  IF n = 0 THEN start
  ELSE CHOOSE after \in
         {CycleBody(synced[n], n, dl, io, before) :
            before \in {CycleLoop(synced, n - 1, dl, io, start)}} : TRUE

\* the return of auto_add_completed_torrents given the result of sync
CycleResult(result, torrents, fs, dl, io) ==
  IF result.error # "" \/ Len(result.synced) = 0
    THEN [torrents |-> torrents, fs |-> fs, completed |-> <<>>,
          applied |-> {}, linked |-> {}, partial |-> {}, calls |-> result.calls,
          none |-> result.none, error |-> result.error]
    ELSE CycleLoop(result.synced, Len(result.synced), dl, io,
                   [torrents |-> torrents, fs |-> fs, completed |-> <<>>,
                    applied |-> {}, linked |-> {}, partial |-> {},
                    calls |-> result.calls, none |-> result.none,
                    error |-> result.error])

\* TorrentManager.auto_add_completed_torrents
auto_add_completed_torrents(torrents, fs, daemon, dl, io) ==
  CHOOSE out \in
    {CycleResult(result, torrents, fs, dl, io) :
       result \in {sync_torrents_with_qbittorrent(torrents, daemon)}} : TRUE

\* ---------------------------------------------------- library file system

\* os.path.dirname(path)
dirname(path) ==
  IF Len(path) = 0 THEN path ELSE SubSeq(path, 1, Len(path) - 1)

\* os.path.islink(path): the symlinks of the library are the file links
islink(fs, path) ==
  \E l \in fs.links : l.target = Norm(path)

\* os.path.isdir(path)
isdir(fs, path) ==
  Norm(path) \in fs.dirs

\* os.listdir(path): the names of the entries of a directory
listdir(fs, path) ==
  {d[Len(d)] : d \in {x \in fs.dirs : Len(x) > 0 /\ dirname(x) = Norm(path)}}
    \cup {l.target[Len(l.target)] : l \in {x \in fs.links : dirname(x.target) = Norm(path)}}
    \cup {TrackJson : t \in {x \in fs.tracks : x.folder = Norm(path)}}

\* shutil.rmtree(path): the directory and everything below it goes
rmtree(fs, path) ==
  [dirs   |-> {d \in fs.dirs : ~IsPrefix(Norm(path), d)},
   links  |-> {l \in fs.links : ~IsPrefix(Norm(path), l.target)},
   tracks |-> {t \in fs.tracks : ~IsPrefix(Norm(path), t.folder)}]

\* file_utils.remove_symlink_safely: [ok, fs, rmtree]; refused is the fault
\* of the file system raising during the removal, rmtree the folders handed
\* to shutil.rmtree
remove_symlink_safely(fs, path, refused) ==
  IF islink(fs, path)
    THEN IF refused THEN [ok |-> FALSE, fs |-> fs, rmtree |-> {}]
         ELSE [ok |-> TRUE,
               fs |-> [fs EXCEPT !.links = {l \in @ : l.target # Norm(path)}],
               rmtree |-> {}]
  ELSE IF isdir(fs, path)
    THEN IF refused THEN [ok |-> FALSE, fs |-> fs, rmtree |-> {Norm(path)}]
         ELSE [ok |-> TRUE, fs |-> rmtree(fs, path), rmtree |-> {Norm(path)}]
  ELSE [ok |-> TRUE, fs |-> fs, rmtree |-> {}]

\* item.startswith(prefix)
startswith(item, prefix) ==
  Len(prefix) <= Len(item) /\ SubSeq(item, 1, Len(prefix)) = prefix

\* the markers list_anime gives in place of a target
EmptyTarget ==
  << <<"E","M","P","T","Y">> >>

NoSymlinksTarget ==
  << <<"N","O","_","S","Y","M","L","I","N","K","S">> >>

\* the target list_anime derives from the symlink it finds in a season
\* folder: the folder of the linked video file, one level higher for
\* 'Season 00'
LinkTarget(item, source) ==
  IF ~is_episode_file(source[Len(source)]) THEN source
  ELSE IF item = SeasonName(0) THEN dirname(dirname(source))
  ELSE dirname(source)

\* the targets list_anime may give for one season folder: os.listdir fixes
\* no order, so the symlink found first is any symlink of the folder
SeasonTargets(fs, item, item_path) ==
  IF listdir(fs, item_path) = {} THEN {EmptyTarget}
  ELSE IF \E l \in fs.links : dirname(l.target) = Norm(item_path)
    THEN {LinkTarget(item, l.source) :
            l \in {x \in fs.links : dirname(x.target) = Norm(item_path)}}
  ELSE {NoSymlinksTarget}

\* the season folders list_anime finds in a title folder
SeasonItems(fs, anime_path) ==
  {item \in listdir(fs, anime_path) :
     /\ isdir(fs, Join(anime_path, item))
     /\ (startswith(item, SeasonWord) \/ item = MoviesName)}

\* file_utils.list_anime: the titles with at least one season folder, as
\* [name, seasons]; seasons holds the (season_name, season_path) pairs, the
\* target of each being one of SeasonTargets. Old-style direct symlinks below
\* the library root are [name, {('Direct Link', anime_path)}]
list_anime(fs) ==
  IF ~PathExists(fs, get_anime_folder) THEN {}
  ELSE {[name |-> anime_name,
         seasons |-> {[name |-> item,
                       path |-> Join(Join(get_anime_folder, anime_name), item)] :
                        item \in SeasonItems(fs, Join(get_anime_folder, anime_name))}] :
          anime_name \in {n \in listdir(fs, get_anime_folder) :
                            /\ isdir(fs, Join(get_anime_folder, n))
                            /\ ~islink(fs, Join(get_anime_folder, n))
                            /\ SeasonItems(fs, Join(get_anime_folder, n)) # {}}}
       \cup {[name |-> anime_name,
              seasons |-> {[name |-> <<"D","i","r","e","c","t"," ","L","i","n","k">>,
                            path |-> Join(get_anime_folder, anime_name)]}] :
               anime_name \in {n \in listdir(fs, get_anime_folder) :
                                 islink(fs, Join(get_anime_folder, n))}}

\* ----------------------------------------------------------------- removal

\* os.path.exists(path) for a path of the download area dl
DiskExists(dl, path) ==
  \E f \in DOMAIN dl :
     \/ IsPrefix(Norm(path), f)
     \/ \E k \in 1..Len(dl[f]) : IsPrefix(Norm(path), f \o dl[f][k].dir)

\* shutil.rmtree(path) for a folder of the download area
DiskRmtree(dl, path) ==
  [f \in {g \in DOMAIN dl : ~IsPrefix(Norm(path), g)} |->
     SelectSeq(dl[f], LAMBDA file : ~IsPrefix(Norm(path), f \o file.dir))]

JELLYFIN_CLEANUP_EXTENSIONS ==
  { <<".","n","f","o">>, <<".","j","p","g">>, <<".","j","p","e","g">> }

\* file_utils.cleanup_jellyfin_files: the metadata files directly in
\* target_path are removed
cleanup_jellyfin_files(dl, target_path) ==
  [f \in DOMAIN dl |->
     SelectSeq(dl[f], LAMBDA file :
        ~(/\ f \o file.dir = Norm(target_path)
          /\ \E ext \in JELLYFIN_CLEANUP_EXTENSIONS : EndsWith(file.name, ext)))]

\* the daemon's listing after QBittorrentAPI.remove_torrent(infohash, ...)
DaemonRemove(daemon, infohash) ==
  [daemon EXCEPT !.torrents = SelectSeq(@, LAMBDA e : Lower(e.hash) # Lower(infohash))]

\* the download area after the daemon removed the torrent: with deleteFiles
\* the folders of the removed entries are gone
DaemonDeleteFiles(dl, daemon, infohash, delete_files) ==
  IF ~delete_files THEN dl
  ELSE [f \in {g \in DOMAIN dl :
                 \A k \in 1..Len(daemon.torrents) :
                    Lower(daemon.torrents[k].hash) = Lower(infohash) =>
                      ~IsPrefix(Join(daemon.torrents[k].save_path, daemon.torrents[k].name), g)}
          |-> dl[f]]

\* the index of the first tracked torrent the loop of
\* _find_associated_torrent_by_track_json returns for track_data, 0 for None
TrackMatch(track_data, tracked_torrents) ==
  LET hit(k) == \/ /\ track_data.infohash # <<>>
                   /\ tracked_torrents[k].infohash = track_data.infohash
                \/ Norm(tracked_torrents[k].download_path) = Norm(track_data.download_path)
  IN  IF \E k \in 1..Len(tracked_torrents) : hit(k)
        THEN CHOOSE k \in 1..Len(tracked_torrents) :
               hit(k) /\ \A j \in 1..(k - 1) : ~hit(j)
        ELSE 0

\* a track.json that json.load cannot read has no key at all
Unreadable ==
  [unreadable |-> TRUE]

\* AnimeManager._find_associated_torrent_by_track_json
find_associated_torrent_by_track_json(fs, anime_main_folder_path, tracked_torrents) ==
  IF \A t \in fs.tracks : t.folder # Norm(anime_main_folder_path) THEN 0
  ELSE LET track_data ==
             (CHOOSE t \in fs.tracks : t.folder = Norm(anime_main_folder_path)).data
       IN  IF "infohash" \notin DOMAIN track_data THEN 0
           ELSE TrackMatch(track_data, tracked_torrents)

\* the torrent _remove_entire_anime associates with the title folder: by
\* track.json, else the first whose download_path is the folder itself
AssociatedTorrent(fs, main, tracked_torrents) ==
  IF find_associated_torrent_by_track_json(fs, main, tracked_torrents) # 0
    THEN find_associated_torrent_by_track_json(fs, main, tracked_torrents)
  ELSE IF \E k \in 1..Len(tracked_torrents) :
            Norm(tracked_torrents[k].download_path) = Norm(main)
    THEN CHOOSE k \in 1..Len(tracked_torrents) :
           /\ Norm(tracked_torrents[k].download_path) = Norm(main)
           /\ \A j \in 1..(k - 1) : Norm(tracked_torrents[j].download_path) # Norm(main)
  ELSE 0

\* The removal handlers return [fs, torrents, qb, disk, deleted]: the library,
\* the store, the daemon and the download area after the handler, and the
\* resolved folders it deleted recursively. ch holds the answers the user
\* gives to the prompts and the faults of the file system.

\* AnimeManager._remove_entire_anime for a season of list_anime. After a
\* removal that succeeded the title folder no longer exists, so the prompts
\* about the original folder are not reached
remove_entire_anime(fs, torrents, daemon, dl, season, ch) ==
  IF ~ch.confirm
    THEN [fs |-> fs, torrents |-> torrents, qb |-> daemon, disk |-> dl, deleted |-> {}]
  ELSE IF Norm(dirname(season.path)) = Norm(get_anime_folder)
    THEN [fs |-> fs, torrents |-> torrents, qb |-> daemon, disk |-> dl, deleted |-> {}]
  ELSE IF ~remove_symlink_safely(fs, dirname(season.path), ch.refused).ok
    THEN [fs |-> fs, torrents |-> torrents, qb |-> daemon, disk |-> dl, deleted |-> {}]
  ELSE IF /\ AssociatedTorrent(fs, dirname(season.path), torrents) # 0
          /\ ch.remove_choice
          /\ daemon.reachable /\ daemon.login
    THEN LET infohash ==
               torrents[AssociatedTorrent(fs, dirname(season.path), torrents)].infohash
         IN  [fs |-> remove_symlink_safely(fs, dirname(season.path), FALSE).fs,
              torrents |-> torrents,
              qb |-> DaemonRemove(daemon, infohash),
              disk |-> DaemonDeleteFiles(dl, daemon, infohash, ch.delete_files),
              deleted |-> remove_symlink_safely(fs, dirname(season.path), FALSE).rmtree]
  ELSE [fs |-> remove_symlink_safely(fs, dirname(season.path), FALSE).fs,
        torrents |-> torrents, qb |-> daemon, disk |-> dl,
        deleted |-> remove_symlink_safely(fs, dirname(season.path), FALSE).rmtree]

\* the season folders that remain in a title folder: item.startswith("Season")
RemainingSeasons(fs, main) ==
  {item \in listdir(fs, main) :
     isdir(fs, Join(main, item)) /\ startswith(item, SubSeq(SeasonWord, 1, 6))}

\* what _remove_specific_season does once the season folder is removed (fs is
\* the library after that removal) and no season remains
RemoveLastSeason(fs, torrents, daemon, dl, main, target, gone, ch) ==
  IF Norm(main) = Norm(get_anime_folder) \/ ch.refused_main
    THEN [fs |-> fs, torrents |-> torrents, qb |-> daemon, disk |-> dl, deleted |-> gone]
    ELSE [fs |-> rmtree(fs, main), torrents |-> torrents, qb |-> daemon,
          disk |-> IF target \in {EmptyTarget, NoSymlinksTarget} \/ ~DiskExists(dl, target)
                     THEN dl
                   ELSE IF ch.delete_choice THEN DiskRmtree(dl, target)
                   ELSE cleanup_jellyfin_files(dl, target),
          deleted |-> gone \cup {Norm(main)}]

\* AnimeManager._remove_specific_season for a season of list_anime and the
\* target list_anime gave for it
remove_specific_season(fs, torrents, daemon, dl, season, target, ch) ==
  IF ~ch.confirm \/ ~remove_symlink_safely(fs, season.path, ch.refused).ok
    THEN [fs |-> fs, torrents |-> torrents, qb |-> daemon, disk |-> dl, deleted |-> {}]
  ELSE IF /\ PathExists(remove_symlink_safely(fs, season.path, FALSE).fs, dirname(season.path))
          /\ RemainingSeasons(remove_symlink_safely(fs, season.path, FALSE).fs,
                              dirname(season.path)) # {}
    THEN [fs |-> remove_symlink_safely(fs, season.path, FALSE).fs,
          torrents |-> torrents, qb |-> daemon, disk |-> dl,
          deleted |-> remove_symlink_safely(fs, season.path, FALSE).rmtree]
  ELSE RemoveLastSeason(remove_symlink_safely(fs, season.path, FALSE).fs, torrents, daemon,
                        dl, dirname(season.path), target,
                        remove_symlink_safely(fs, season.path, FALSE).rmtree, ch)

\* database.remove_torrent_from_database_by_infohash, which torrent_manager
\* imports: the module-level wrapper of remove_torrents_by_infohash
remove_torrent_from_database_by_infohash(torrents, infohash) ==
  remove_torrents_by_infohash(torrents, infohash)

\* TorrentManager.remove_torrent_and_library_entry. The store file lives in
\* the library root: it goes with the root, load then reads no record, and
\* save creates the root folder again
remove_torrent_and_library_entry(fs, torrents, daemon, dl, torrent) ==
  IF ~PathExists(fs, anime_main_folder(torrent))
    THEN [fs |-> fs,
          torrents |-> remove_torrent_from_database_by_infohash(torrents, torrent.infohash),
          qb |-> daemon, disk |-> dl, deleted |-> {}]
    ELSE [fs |-> [rmtree(fs, anime_main_folder(torrent)) EXCEPT
                    !.dirs = @ \cup Ancestors(get_anime_folder)],
          torrents |->
            remove_torrent_from_database_by_infohash(
              IF IsPrefix(Norm(anime_main_folder(torrent)), Norm(get_anime_folder))
                THEN <<>> ELSE torrents,
              torrent.infohash),
          qb |-> daemon, disk |-> dl,
          deleted |-> {Norm(anime_main_folder(torrent))}]

\* ------------------------------------------------------------ the inputs

\* the most records the store holds in the model
MaxTorrents ==
  2

HashUpper ==
  <<"A","B">>

HashLower ==
  <<"a","b">>

HashOther ==
  <<"c","d">>

TitleA ==
  <<"A">>

DL ==
  <<"d","l">>

T1 ==
  <<"T","1">>

T2 ==
  <<"T","2">>

FileA ==
  <<"a",".","m","k","v">>

FileB ==
  <<"b",".","M","P","4">>

FileN ==
  <<"n",".","t","x","t">>

FolderS2 ==
  <<"S","2">>

\* a probed duration of 24 minutes, and a probe that failed
Duration24 ==
  [ok |-> TRUE, secs |-> 1440]

DurationNone ==
  [ok |-> FALSE, secs |-> 0]

\* the download area: T1 holds two episodes, T2 no video file
DiskCatalogue ==
  (<<DL, T1>> :> << [dir |-> <<>>, name |-> FileA, duration |-> Duration24],
                    [dir |-> <<FolderS2>>, name |-> FileB, duration |-> DurationNone] >>)
  @@ (<<DL, T2>> :> << [dir |-> <<>>, name |-> FileN, duration |-> DurationNone] >>)

\* what the user may add to the store
TorrentInfos ==
  [infohash : {HashUpper, HashOther}, title : {<<>>, TitleA}, download_path : {DefaultPath}]

\* a title made of a character no file name may hold
TitleQ ==
  <<"?">>

\* what the user may add to the store in the library specification
LibraryInfos ==
  {[infohash |-> HashUpper, title |-> TitleA, download_path |-> DefaultPath],
   [infohash |-> HashOther, title |-> TitleQ, download_path |-> DefaultPath]}

\* the answers of the user to the prompts of a removal, and whether the file
\* system refuses the removal of the season or title folder (refused) and of
\* the title folder after its last season (refused_main)
Cancelled ==
  [confirm |-> FALSE, refused |-> FALSE, refused_main |-> FALSE,
   remove_choice |-> FALSE, delete_files |-> FALSE, delete_choice |-> FALSE]

\* removing a title: the user cancels, or confirms and then the removal is
\* refused, or it goes through with each answer to the prompts that follow
TitleChoices ==
  {Cancelled,
   [Cancelled EXCEPT !.confirm = TRUE, !.refused = TRUE],
   [Cancelled EXCEPT !.confirm = TRUE],
   [Cancelled EXCEPT !.confirm = TRUE, !.remove_choice = TRUE],
   [Cancelled EXCEPT !.confirm = TRUE, !.remove_choice = TRUE, !.delete_files = TRUE]}

\* removing a season: the same, with the removal of the title folder after
\* its last season refused as well
SeasonChoices ==
  {Cancelled,
   [Cancelled EXCEPT !.confirm = TRUE, !.refused = TRUE],
   [Cancelled EXCEPT !.confirm = TRUE, !.refused_main = TRUE],
   [Cancelled EXCEPT !.confirm = TRUE],
   [Cancelled EXCEPT !.confirm = TRUE, !.delete_choice = TRUE]}

\* a finished torrent whose download folder DL/T1 is on disk
FinishedEntry(h) ==
  [hash |-> h, state |-> "uploading", progress |-> 1, name |-> T1, save_path |-> <<DL>>]

\* the finished entry, and the entries that differ from it in one field
Variations(h) ==
  {FinishedEntry(h),
   [FinishedEntry(h) EXCEPT !.state = "downloading", !.progress = 0],
   [FinishedEntry(h) EXCEPT !.name = <<>>],
   [FinishedEntry(h) EXCEPT !.name = T2],
   [FinishedEntry(h) EXCEPT !.save_path = <<>>]}

\* the daemon answers over a set of entries: unreachable, login refused, or
\* a listing of no entry, one entry, or the two finished entries in either order
DaemonAnswers(entries) ==
  {[reachable |-> FALSE, login |-> FALSE, torrents |-> <<>>],
   [reachable |-> TRUE, login |-> FALSE, torrents |-> <<>>]}
    \cup {[reachable |-> TRUE, login |-> TRUE, torrents |-> l] :
            l \in {<<>>} \cup {<<e>> : e \in entries}
                         \cup {<<FinishedEntry(HashLower), FinishedEntry(HashOther)>>,
                               <<FinishedEntry(HashOther), FinishedEntry(HashLower)>>}}

\* the answers of the library specification
LibraryAnswers ==
  {[reachable |-> FALSE, login |-> FALSE, torrents |-> <<>>],
   [reachable |-> TRUE, login |-> TRUE, torrents |-> <<FinishedEntry(HashLower)>>]}

\* the answers of the auto-add specification
CycleAnswers ==
  DaemonAnswers(Variations(HashLower) \cup {FinishedEntry(HashOther)})

\* the answers of the sync specification, with an upper-case hash as well
SyncAnswers ==
  DaemonAnswers(Variations(HashLower) \cup Variations(HashOther)
                  \cup {FinishedEntry(HashUpper)})

\* no fault
NoFault ==
  [mkdir_fail |-> {}, link_fail |-> {}, track_fail |-> FALSE]

\* what the file system may refuse during one call: nothing, or one kind of
\* fault (one folder, one or both files, track.json)
IoFaults ==
  {NoFault, [NoFault EXCEPT !.track_fail = TRUE]}
    \cup {[NoFault EXCEPT !.mkdir_fail = {<<AnimeName, TitleA, SeasonName(n)>>}] : n \in {1, 2}}
    \cup {[NoFault EXCEPT !.link_fail = names] : names \in (SUBSET {FileA, FileB}) \ {{}}}

EmptyLibrary ==
  [dirs |-> Ancestors(get_anime_folder), links |-> {}, tracks |-> {}]

\* ---------------------------------------------------------------- actions

\* what called holds after an operation whose result is not looked at
NoResult ==
  [op |-> "none"]

\* the threads that change the store: the background monitor and the menus
Threads ==
  {"monitor", "ui"}

\* what inflight holds for a thread that is in no store operation
Idle ==
  [op |-> "idle"]

\* no daemon request has been made
NoRequest ==
  [pc |-> "idle"]

\* the monitor after TorrentBackgroundMonitor.__init__: not running, no loop
\* thread, the main thread free to call it
MonitorOff ==
  [running |-> FALSE, main |-> "free", loops |-> <<>>]

Init ==
  /\ db = <<>>
  /\ library = EmptyLibrary
  /\ qb = [reachable |-> FALSE, login |-> FALSE, torrents |-> <<>>]
  /\ disk = DiskCatalogue
  /\ called = NoResult
  /\ inflight = [t \in Threads |-> Idle]
  /\ monitor = MonitorOff
  /\ request = NoRequest

\* a call of add_torrent_to_database with one of infos
AddTorrent(infos) ==
  /\ Len(db) < MaxTorrents
  /\ \E info \in infos : db' = add_torrent(db, info)
  /\ called' = NoResult
  /\ UNCHANGED <<library, qb, disk, inflight, monitor, request>>

\* a call of remove_torrents_by_infohash for a tracked torrent
RemoveTorrent ==
  /\ \E k \in 1..Len(db) : db' = remove_torrents_by_infohash(db, db[k].infohash)
  /\ called' = NoResult
  /\ UNCHANGED <<library, qb, disk, inflight, monitor, request>>

\* the daemon's state changes to one of answers
DaemonChange(answers) ==
  /\ qb' \in answers
  /\ qb' # qb
  /\ called' = NoResult
  /\ UNCHANGED <<db, library, disk, inflight, monitor, request>>

\* a call of sync_torrents_with_qbittorrent
Sync ==
  /\ called' = [op |-> "sync", result |-> sync_torrents_with_qbittorrent(db, qb)]
  /\ db' = StoreAfterSync(db, qb)
  /\ UNCHANGED <<library, qb, disk, inflight, monitor, request>>

\* one call of auto_add_completed_torrents
AutoAdd ==
  /\ \E io \in IoFaults :
       \E out \in {auto_add_completed_torrents(db, library, qb, disk, io)} :
           /\ db' = out.torrents
           /\ library' = out.fs
           /\ called' = [op |-> "auto_add", calls |-> out.calls,
                         none |-> out.none, error |-> out.error,
                         completed |-> out.completed, applied |-> out.applied,
                         linked |-> out.linked, partial |-> out.partial]
  /\ UNCHANGED <<qb, disk, inflight, monitor, request>>

DaemonChangeCycle ==
  DaemonChange(CycleAnswers)

AddTracked ==
  AddTorrent(TorrentInfos)

DaemonChangeSync ==
  DaemonChange(SyncAnswers)

\* the store, the daemon and the auto-add cycle
Next ==
  \/ AddTracked
  \/ RemoveTorrent
  \/ DaemonChangeCycle
  \/ AutoAdd

Spec ==
  Init /\ [][Next]_vars

\* the store, the daemon and sync
NextSync ==
  \/ AddTracked
  \/ RemoveTorrent
  \/ DaemonChangeSync
  \/ Sync

SpecSync ==
  Init /\ [][NextSync]_vars

\* one call of add_completed_torrent_to_library for a tracked torrent and a
\* download folder; called keeps the result, whether the step before was a
\* call of it with the same plan (again), and then what that call returned
\* and which symlinks failed in it
Apply ==
  /\ \E k \in 1..Len(db) : \E folder \in DOMAIN disk : \E io \in IoFaults :
       \E res \in {add_completed_torrent_to_library(library, db[k], folder, disk[folder], io)} :
          /\ library' = res.fs
          /\ called' = [op |-> "apply", ok |-> res.ok,
                        created |-> res.created, existing |-> res.existing,
                        failed |-> res.failed, plan |-> res.plan,
                        again |-> called.op = "apply" /\ called.plan = res.plan,
                        prev_ok |-> called.op = "apply" /\ called.plan = res.plan
                                      /\ called.ok,
                        prev_failed |-> IF called.op = "apply" /\ called.plan = res.plan
                                          THEN called.failed ELSE {}]
  /\ UNCHANGED <<db, qb, disk, inflight, monitor, request>>

\* the effect of a removal handler
Removed(op, out) ==
  /\ library' = out.fs
  /\ db' = out.torrents
  /\ qb' = out.qb
  /\ disk' = out.disk
  /\ called' = [op |-> op, deleted |-> out.deleted]
  /\ UNCHANGED <<inflight, monitor, request>>

\* remove_anime, the user choosing a title and removing it whole; seasons[0]
\* serves for the folder above it alone, which all seasons of a title share
RemoveEntireAnime ==
  \E anime \in list_anime(library) : \E ch \in TitleChoices :
    \E out \in {remove_entire_anime(library, db, qb, disk,
                                    CHOOSE season \in anime.seasons : TRUE, ch)} :
       Removed("remove_entire_anime", out)

\* remove_anime, the user choosing a title of several seasons and one season
RemoveSpecificSeason ==
  \E anime \in list_anime(library) : \E season \in anime.seasons :
    \E target \in SeasonTargets(library, season.name, season.path) :
      \E ch \in SeasonChoices :
         /\ Cardinality(anime.seasons) > 1
         /\ \E out \in {remove_specific_season(library, db, qb, disk, season, target, ch)} :
               Removed("remove_specific_season", out)

\* a call of remove_torrent_and_library_entry for a tracked torrent
RemoveTorrentAndLibraryEntry ==
  \E k \in 1..Len(db) :
    \E out \in {remove_torrent_and_library_entry(library, db, qb, disk, db[k])} :
       Removed("remove_torrent_and_library_entry", out)

AddTitled ==
  AddTorrent(LibraryInfos)

DaemonChangeLibrary ==
  DaemonChange(LibraryAnswers)

\* the store, the linker and the removals
NextLibrary ==
  \/ AddTitled
  \/ DaemonChangeLibrary
  \/ Apply
  \/ RemoveEntireAnime
  \/ RemoveSpecificSeason
  \/ RemoveTorrentAndLibraryEntry

SpecLibrary ==
  Init /\ [][NextLibrary]_vars

\* ------------------------------------------------- the store, step by step

\* Every store mutation is load, change the loaded records, save. inflight
\* holds for each thread the operation it is in and the records load gave it;
\* in this specification called holds the history of the mutations that
\* completed: the hashes added, removed and marked 'added_to_library'.

\* the two torrents of the step-by-step specification
StoreInfos ==
  {[infohash |-> HashUpper, title |-> TitleA, download_path |-> DefaultPath],
   [infohash |-> HashOther, title |-> TitleA, download_path |-> DefaultPath]}

\* a field of the history
History(field) ==
  IF called.op = "store" THEN called[field] ELSE {}

\* TorrentDatabase.load at the start of an operation
Load(thread, operation) ==
  /\ inflight[thread] = Idle
  /\ inflight' = [inflight EXCEPT ![thread] = operation @@ [data |-> db]]
  /\ UNCHANGED <<db, library, qb, disk, called, monitor, request>>

\* TorrentDatabase.save at the end of an operation: the records the
\* operation loaded, changed, replace the store
Save(thread, torrents, field, infohash) ==
  /\ db' = torrents
  /\ inflight' = [inflight EXCEPT ![thread] = Idle]
  /\ called' = [op |-> "store",
                added |-> History("added") \cup (IF field = "added" THEN {infohash} ELSE {}),
                removed |-> History("removed")
                              \cup (IF field = "removed" THEN {infohash} ELSE {}),
                marked |-> History("marked") \cup (IF field = "marked" THEN {infohash} ELSE {})]
  /\ UNCHANGED <<library, qb, disk, monitor, request>>

\* the menus start add_torrent for a torrent not added before
BeginAdd ==
  \E info \in StoreInfos :
     /\ Len(db) < MaxTorrents
     /\ info.infohash \notin History("added")
     /\ Load("ui", [op |-> "add_torrent", info |-> info])

\* the menus start remove_torrents_by_infohash for a tracked torrent
BeginRemove ==
  \E k \in 1..Len(db) :
     Load("ui", [op |-> "remove_torrents_by_infohash", infohash |-> db[k].infohash])

\* the monitor starts update_torrent_status for a torrent its cycle linked
BeginUpdateStatus ==
  \E k \in 1..Len(db) :
     /\ db[k].status # "added_to_library"
     /\ Load("monitor", [op |-> "update_torrent_status", torrent_id |-> db[k].id,
                         infohash |-> db[k].infohash])

\* the menus' operation changes what it loaded and saves it
FinishUi ==
  \/ /\ inflight["ui"].op = "add_torrent"
     /\ Save("ui", add_torrent(inflight["ui"].data, inflight["ui"].info),
             "added", inflight["ui"].info.infohash)
  \/ /\ inflight["ui"].op = "remove_torrents_by_infohash"
     /\ Save("ui", remove_torrents_by_infohash(inflight["ui"].data, inflight["ui"].infohash),
             "removed", inflight["ui"].infohash)

\* the monitor's operation changes what it loaded and saves it
FinishMonitor ==
  /\ inflight["monitor"].op = "update_torrent_status"
  /\ Save("monitor",
          update_torrent_status(inflight["monitor"].data, inflight["monitor"].torrent_id,
                                "added_to_library"),
          "marked", inflight["monitor"].infohash)

\* the store under the monitor thread and the menus
NextStore ==
  \/ BeginAdd
  \/ BeginRemove
  \/ BeginUpdateStatus
  \/ FinishUi
  \/ FinishMonitor

SpecStore ==
  Init /\ [][NextStore]_vars

\* ------------------------------------------------- the track.json lookup

\* the torrents of the lookup specification: two hashes, each downloaded to
\* the default place or to DL
ProvenanceInfos ==
  [infohash : {HashUpper, HashOther}, title : {TitleA}, download_path : {DefaultPath, <<DL>>}]

\* the store after add_torrent for each of infos in turn
RECURSIVE AddAll(_)
AddAll(infos) ==
  IF Len(infos) = 0 THEN <<>>
  ELSE add_torrent(AddAll(SubSeq(infos, 1, Len(infos) - 1)), infos[Len(infos)])

\* the stores of the lookup specification
ProvenanceStores ==
  {AddAll(infos) : infos \in UNION {[1..n -> ProvenanceInfos] : n \in 0..MaxTorrents}}

\* the title folder the lookup is asked about
ProvenanceFolder ==
  <<AnimeName, TitleA>>

\* what track.json of the title folder may hold: what apply wrote for a
\* torrent, the same without a hash, or nothing json.load can read
ProvenanceTracks ==
  {TrackData(AddAll(<<info>>)[1], info.download_path, ProvenanceFolder) :
     info \in ProvenanceInfos}
    \cup {[TrackData(AddAll(<<info>>)[1], info.download_path, ProvenanceFolder)
             EXCEPT !.infohash = <<>>] : info \in ProvenanceInfos}
    \cup {Unreadable}

\* the title folder with no track.json, or with one of ProvenanceTracks
ProvenanceLibraries ==
  {[EmptyLibrary EXCEPT !.dirs = @ \cup {ProvenanceFolder}]}
    \cup {[EmptyLibrary EXCEPT !.dirs = @ \cup {ProvenanceFolder},
                               !.tracks = {[folder |-> ProvenanceFolder, data |-> d]}] :
            d \in ProvenanceTracks}

InitProvenance ==
  /\ db \in ProvenanceStores
  /\ library \in ProvenanceLibraries
  /\ qb = [reachable |-> FALSE, login |-> FALSE, torrents |-> <<>>]
  /\ disk = DiskCatalogue
  /\ called = NoResult
  /\ inflight = [t \in Threads |-> Idle]
  /\ monitor = MonitorOff
  /\ request = NoRequest

\* a call of _find_associated_torrent_by_track_json for the title folder;
\* found is the index of the torrent it returns, 0 for None
FindProvenance ==
  /\ called = NoResult
  /\ called' = [op |-> "find_associated_torrent_by_track_json",
                found |-> find_associated_torrent_by_track_json(library, ProvenanceFolder, db)]
  /\ UNCHANGED <<db, library, qb, disk, inflight, monitor, request>>

NextProvenance ==
  FindProvenance

SpecProvenance ==
  InitProvenance /\ [][NextProvenance]_vars

\* ------------------------------------------------------ the planner alone

FolderOva ==
  <<"O","V","A">>

FolderPlain ==
  <<"x">>

FileS3 ==
  <<"S","3",".","m","k","v">>

FileSp ==
  <<"s","p",".","m","k","v">>

\* the folders a file of the planner specification may lie in, below the
\* download folder: none, one, or two nested
PlannerDirs ==
  UNION {[1..n -> {FolderS2, FolderOva, FolderPlain}] : n \in 0..2}

\* what probe_video_duration may return: None, or a number of seconds at,
\* below and above 40 minutes
PlannerDurations ==
  {DurationNone, Duration24, [ok |-> TRUE, secs |-> MovieThreshold],
   [ok |-> TRUE, secs |-> MovieThreshold + 1]}

\* the download folder DL/T1 holding one video file
PlannerCatalogues ==
  {(<<DL, T1>> :> << [dir |-> d, name |-> n, duration |-> t] >>) :
     d \in PlannerDirs, n \in {FileA, FileS3, FileSp}, t \in PlannerDurations}

InitPlanner ==
  /\ db = AddAll(<< [infohash |-> HashUpper, title |-> TitleA, download_path |-> DefaultPath] >>)
  /\ library = EmptyLibrary
  /\ qb = [reachable |-> FALSE, login |-> FALSE, torrents |-> <<>>]
  /\ disk \in PlannerCatalogues
  /\ called = NoResult
  /\ inflight = [t \in Threads |-> Idle]
  /\ monitor = MonitorOff
  /\ request = NoRequest

\* a call of sort_torrent_files_for_jellyfin for the download folder
Plan ==
  /\ called = NoResult
  /\ called' = [op |-> "plan",
                plan |-> sort_torrent_files_for_jellyfin(db[1], <<DL, T1>>, disk[<<DL, T1>>])]
  /\ UNCHANGED <<db, library, qb, disk, inflight, monitor, request>>

\* a call of add_completed_torrent_to_library for the download folder when
\* it cannot be listed
ApplyUnlistable ==
  /\ called = NoResult
  /\ \E res \in {add_completed_torrent_to_library(
                   library, db[1], <<DL, T1>>, Walk(disk, <<DL, T1>>, FALSE), NoFault)} :
        /\ library' = res.fs
        /\ called' = [op |-> "apply_unlistable", ok |-> res.ok, plan |-> res.plan]
  /\ UNCHANGED <<db, qb, disk, inflight, monitor, request>>

NextPlanner ==
  \/ Plan
  \/ ApplyUnlistable

SpecPlanner ==
  InitPlanner /\ [][NextPlanner]_vars

\* ------------------------------------------------- the background monitor

\* monitor.loops holds one record per thread start_monitoring started, in
\* the order of their start: pc is the position of the thread in
\* _monitor_loop ("while": at the test of the while loop, "cycle": in the
\* try block, "poll": at the test of the running flag in the wait loop,
\* "sleep": in time.sleep(0.1), "done": returned), tick counts the sleeps of
\* the wait loop, failed is whether the last cycle raised, and
\* stopped_waiting records that stop was requested while the thread was in the
\* wait loop. monitor.main is "joining" while stop_monitoring waits in
\* thread.join.

\* the most threads the model starts
MaxStarts ==
  3

\* the sleeps of one wait loop, check_interval * 10 in the code
TicksPerInterval ==
  2

\* a thread at the start of _monitor_loop
NewLoop ==
  [pc |-> "while", tick |-> 0, failed |-> FALSE, stopped_waiting |-> FALSE]

\* a loop whose cycle raised leaves _monitor_loop
AfterCycleUncaught(loop, raised) ==
  [loop EXCEPT !.pc = IF raised THEN "done" ELSE "poll", !.tick = 0, !.failed = raised]

\* the try block is left, normally or through 'except Exception': the wait
\* loop comes next
AfterCycle(loop, raised) ==
  [loop EXCEPT !.pc = "poll", !.tick = 0, !.failed = raised]

\* start_monitoring: a thread is started when the flag is not set
StartMonitoring ==
  /\ monitor.main = "free"
  /\ Len(monitor.loops) < MaxStarts
  /\ monitor' = IF monitor.running THEN monitor
                ELSE [monitor EXCEPT !.running = TRUE, !.loops = Append(@, NewLoop)]
  /\ called' = [op |-> "start_monitoring", started |-> ~monitor.running]
  /\ UNCHANGED <<db, library, qb, disk, inflight, request>>

\* stop_monitoring up to thread.join: the flag is cleared
StopMonitoring ==
  /\ monitor.main = "free"
  /\ monitor' =
       IF ~monitor.running THEN monitor
       ELSE [monitor EXCEPT
               !.running = FALSE,
               !.main = "joining",
               !.loops = [i \in 1..Len(@) |->
                            IF @[i].pc \in {"poll", "sleep"}
                              THEN [@[i] EXCEPT !.stopped_waiting = TRUE] ELSE @[i]]]
  /\ called' = [op |-> "stop_monitoring", stopped |-> monitor.running]
  /\ UNCHANGED <<db, library, qb, disk, inflight, request>>

\* thread.join(timeout=2) returns: the thread started last has returned, or
\* the two seconds went by. A thread in the wait loop sees the cleared flag
\* within a tenth of a second, so the time-out is only met in a cycle
JoinReturns ==
  /\ monitor.main = "joining"
  /\ monitor.loops[Len(monitor.loops)].pc \in {"done", "cycle"}
  /\ monitor' = [monitor EXCEPT !.main = "free"]
  /\ called' = [op |-> "join",
                timed_out |-> monitor.loops[Len(monitor.loops)].pc # "done"]
  /\ UNCHANGED <<db, library, qb, disk, inflight, request>>

\* the test of 'while self.running'
LoopTest(i) ==
  /\ monitor.loops[i].pc = "while"
  /\ monitor' = [monitor EXCEPT
                   !.loops[i].pc = IF monitor.running THEN "cycle" ELSE "done"]
  /\ UNCHANGED <<db, library, qb, disk, called, inflight, request>>

\* the try block: auto_add_completed_torrents and the notification of what
\* it returned, or an exception raised before anything was changed
LoopCycle(i) ==
  /\ monitor.loops[i].pc = "cycle"
  /\ \/ \E out \in {auto_add_completed_torrents(db, library, qb, disk, NoFault)} :
          /\ db' = out.torrents
          /\ library' = out.fs
          /\ called' = [op |-> "monitor_cycle", loop |-> i, raised |-> FALSE,
                        notified |-> out.completed]
          /\ monitor' = [monitor EXCEPT !.loops[i] = AfterCycle(@, FALSE)]
     \/ /\ called' = [op |-> "monitor_cycle", loop |-> i, raised |-> TRUE,
                      notified |-> <<>>]
        /\ monitor' = [monitor EXCEPT !.loops[i] = AfterCycle(@, TRUE)]
        /\ UNCHANGED <<db, library>>
  /\ UNCHANGED <<qb, disk, inflight, request>>

\* one iteration of the wait loop up to its sleep: the range is exhausted,
\* or the flag is found cleared and the loop is left, or the thread sleeps
LoopPoll(i) ==
  /\ monitor.loops[i].pc = "poll"
  /\ monitor' = [monitor EXCEPT
                   !.loops[i].pc =
                      IF monitor.loops[i].tick = TicksPerInterval \/ ~monitor.running
                        THEN "while" ELSE "sleep"]
  /\ UNCHANGED <<db, library, qb, disk, called, inflight, request>>

\* time.sleep(0.1) returns
LoopSleep(i) ==
  /\ monitor.loops[i].pc = "sleep"
  /\ monitor' = [monitor EXCEPT !.loops[i].pc = "poll", !.loops[i].tick = @ + 1]
  /\ UNCHANGED <<db, library, qb, disk, called, inflight, request>>

\* a step of the thread started as the i-th
LoopStep(i) ==
  /\ i <= Len(monitor.loops)
  /\ \/ LoopTest(i)
     \/ LoopCycle(i)
     \/ LoopPoll(i)
     \/ LoopSleep(i)

NextMonitor ==
  \/ StartMonitoring
  \/ StopMonitoring
  \/ JoinReturns
  \/ \E i \in 1..MaxStarts : LoopStep(i)

SpecMonitor ==
  Init /\ [][NextMonitor]_vars

\* the monitor with threads that are scheduled again and again
SpecMonitorFair ==
  SpecMonitor /\ \A i \in 1..MaxStarts : WF_vars(LoopStep(i))

\* ------------------------------------------------- daemon requests

\* times are in tenths of a second
REQUEST_TIMEOUT_SECONDS ==
  50

REQUEST_MAX_RETRIES ==
  2

REQUEST_RETRY_BACKOFF_SECONDS ==
  5

HEALTHCHECK_TIMEOUT_SECONDS ==
  10

HEALTHCHECK_MAX_RETRIES ==
  0

\* the requests of QBittorrentAPI with the keyword arguments they pass
DaemonCalls ==
  { [call |-> "check_connection", endpoint |-> "/api/v2/app/version", session |-> FALSE,
     timeout |-> HEALTHCHECK_TIMEOUT_SECONDS, max_retries |-> HEALTHCHECK_MAX_RETRIES] }
  \cup
  { [call |-> c[1], endpoint |-> c[2], session |-> TRUE,
     timeout |-> REQUEST_TIMEOUT_SECONDS, max_retries |-> REQUEST_MAX_RETRIES] :
      c \in { <<"login", "/api/v2/auth/login">>,
              <<"add_torrent", "/api/v2/torrents/add">>,
              <<"get_torrent_info", "/api/v2/torrents/info">>,
              <<"logout", "/api/v2/auth/logout">>,
              <<"remove_torrent", "/api/v2/torrents/delete">> } }

\* the subclasses of requests.RequestException an attempt ends with:
\* no connection, no answer within the timeout, an error status
RequestExceptions ==
  {"ConnectionError", "Timeout", "HTTPError"}

\* 2 ** attempt
RECURSIVE Pow2(_)
Pow2(attempt) ==
  IF attempt = 0 THEN 1 ELSE 2 * Pow2(attempt - 1)

\* the test before the sleep with '<=' for '<'
SleepsBeforeRetryAlways(attempt, max_retries) ==
  attempt <= max_retries

\* 'if attempt < max_retries'
SleepsBeforeRetry(attempt, max_retries) ==
  attempt < max_retries

\* backoff_seconds * (2 ** attempt)
RetryWait(backoff_seconds, attempt) ==
  backoff_seconds * Pow2(attempt)

\* a wrapper calls _request_with_retry or _request_without_session_with_retry:
\* the keyword arguments are popped and the for loop is entered
BeginRequest ==
  /\ request.pc \in {"idle", "returned", "raised"}
  /\ \E c \in DaemonCalls :
       request' = [pc |-> "attempt", call |-> c.call, endpoint |-> c.endpoint,
                   timeout |-> c.timeout, max_retries |-> c.max_retries,
                   backoff_seconds |-> REQUEST_RETRY_BACKOFF_SECONDS,
                   attempt |-> 0, attempts |-> 0, waits |-> <<>>,
                   last_exception |-> "None"]
  /\ UNCHANGED <<db, library, qb, disk, called, inflight, monitor>>

\* the body of the try block: the response is returned
AttemptSucceeds ==
  /\ request.pc = "attempt"
  /\ request' = [request EXCEPT !.pc = "returned", !.attempts = @ + 1]
  /\ UNCHANGED <<db, library, qb, disk, called, inflight, monitor>>

\* the except clause: the exception is kept; a sleep follows, or after the
\* last value of the range 'raise last_exception'
AttemptFails ==
  /\ request.pc = "attempt"
  /\ \E exc \in RequestExceptions :
       request' = [request EXCEPT
                     !.attempts = @ + 1,
                     !.last_exception = exc,
                     !.pc = IF SleepsBeforeRetry(request.attempt, request.max_retries)
                              THEN "sleep"
                            ELSE IF request.attempt + 1 < request.max_retries + 1
                              THEN "attempt"
                            ELSE "raised",
                     !.attempt = IF SleepsBeforeRetry(request.attempt, request.max_retries)
                                   THEN @ ELSE @ + 1]
  /\ UNCHANGED <<db, library, qb, disk, called, inflight, monitor>>

\* time.sleep returns and the loop goes to its next value, or is exhausted
RetrySleep ==
  /\ request.pc = "sleep"
  /\ request' = [request EXCEPT
                   !.waits = Append(@, RetryWait(request.backoff_seconds, request.attempt)),
                   !.attempt = @ + 1,
                   !.pc = IF request.attempt + 1 < request.max_retries + 1
                            THEN "attempt" ELSE "raised"]
  /\ UNCHANGED <<db, library, qb, disk, called, inflight, monitor>>

NextRequest ==
  \/ BeginRequest
  \/ AttemptSucceeds
  \/ AttemptFails
  \/ RetrySleep

SpecRequest ==
  Init /\ [][NextRequest]_vars

\* ------------------------------------- the auto-add cycle, step by step

\* auto_add_completed_torrents runs in the monitor thread and, in the
\* auto-refresh view, in the main thread; the menus of the main thread add
\* torrents. inflight holds for a thread in a cycle the merged views sync
\* gave it, how many of them the for loop has handled and the list it will
\* return, with the cycles it ran alongside (overlaps) and the records that
\* cycles had marked when it began (before). In this specification called holds what the cycles did: how many
\* began, what each returned, and the records they marked.

\* the most cycles begun
MaxCycles ==
  3

\* the daemon is unreachable, or lists one or both torrents as finished
PipelineAnswers ==
  {[reachable |-> FALSE, login |-> FALSE, torrents |-> <<>>],
   [reachable |-> TRUE, login |-> TRUE, torrents |-> <<FinishedEntry(HashLower)>>],
   [reachable |-> TRUE, login |-> TRUE,
    torrents |-> <<FinishedEntry(HashLower), FinishedEntry(HashOther)>>]}

\* what the cycles did so far
Cycles ==
  IF called.op = "cycles" THEN called
  ELSE [op |-> "cycles", count |-> 0, reports |-> {}, marked |-> {}]

\* the cycles in progress
Running ==
  {inflight[t].cycle : t \in {u \in Threads : inflight[u].op = "auto_add"}}

\* a cycle returns what it completed
Report(thread, cycle, overlaps, completed) ==
  [thread |-> thread, cycle |-> cycle, overlaps |-> overlaps,
   completed |-> {<<completed[i].id, completed[i].infohash>> : i \in 1..Len(completed)}]

\* auto_add_completed_torrents up to its for loop: sync, and the return of
\* [] when sync gave an error or nothing
BeginCycle(thread) ==
  /\ inflight[thread] = Idle
  /\ Cycles.count < MaxCycles
  /\ \E result \in {sync_torrents_with_qbittorrent(db, qb)} :
       IF result.error # "" \/ Len(result.synced) = 0
         THEN /\ called' = [Cycles EXCEPT
                              !.count = @ + 1,
                              !.reports = @ \cup {Report(thread, Cycles.count + 1, Running, <<>>)}]
              /\ UNCHANGED inflight
         ELSE /\ called' = [Cycles EXCEPT !.count = @ + 1]
              /\ inflight' =
                   [t \in Threads |->
                      IF t = thread
                        THEN [op |-> "auto_add", cycle |-> Cycles.count + 1,
                              overlaps |-> Running, before |-> Cycles.marked,
                              synced |-> result.synced,
                              done |-> 0, completed |-> <<>>]
                      ELSE IF inflight[t].op = "auto_add"
                        THEN [inflight[t] EXCEPT !.overlaps = @ \cup {Cycles.count + 1}]
                      ELSE inflight[t]]
  /\ UNCHANGED <<db, library, qb, disk, monitor, request>>

\* the record update_torrent_status changes for a torrent of the loop
MarkedBy(torrent) ==
  LET k == FirstWithId(db, torrent.id)
  IN  IF k = 0 THEN {} ELSE {<<db[k].id, db[k].infohash>>}

\* one iteration of the for loop over synced_torrents
CycleIteration(thread) ==
  /\ inflight[thread].op = "auto_add"
  /\ inflight[thread].done < Len(inflight[thread].synced)
  /\ LET i == inflight[thread].done + 1
         torrent == inflight[thread].synced[i]
     IN  \E after \in {CycleBody(torrent, i, disk, NoFault,
                                 [torrents |-> db, fs |-> library,
                                  completed |-> inflight[thread].completed,
                                  applied |-> {}, linked |-> {}, partial |-> {}])} :
            /\ db' = after.torrents
            /\ library' = after.fs
            /\ inflight' = [inflight EXCEPT ![thread].done = i,
                                            ![thread].completed = after.completed]
            /\ called' = IF after.linked = {} THEN Cycles
                         ELSE [Cycles EXCEPT !.marked = @ \cup MarkedBy(torrent)]
  /\ UNCHANGED <<qb, disk, monitor, request>>

\* the loop is over and completed_torrents is returned
EndCycle(thread) ==
  /\ inflight[thread].op = "auto_add"
  /\ inflight[thread].done = Len(inflight[thread].synced)
  /\ called' = [Cycles EXCEPT
                  !.reports = @ \cup {Report(thread, inflight[thread].cycle,
                                             inflight[thread].overlaps,
                                             inflight[thread].completed)}]
  /\ inflight' = [inflight EXCEPT ![thread] = Idle]
  /\ UNCHANGED <<db, library, qb, disk, monitor, request>>

\* the menus start add_torrent
MenuBeginAdd ==
  \E info \in StoreInfos :
     /\ Len(db) < MaxTorrents
     /\ \A k \in 1..Len(db) : db[k].infohash # info.infohash
     /\ Load("ui", [op |-> "add_torrent", info |-> info])

\* add_torrent appends to what it loaded and saves
MenuFinishAdd ==
  /\ inflight["ui"].op = "add_torrent"
  /\ db' = add_torrent(inflight["ui"].data, inflight["ui"].info)
  /\ inflight' = [inflight EXCEPT !["ui"] = Idle]
  /\ UNCHANGED <<library, qb, disk, called, monitor, request>>

\* the daemon's state changes
DaemonChangePipeline ==
  /\ qb' \in PipelineAnswers
  /\ qb' # qb
  /\ UNCHANGED <<db, library, disk, called, inflight, monitor, request>>

MonitorCycle ==
  \/ BeginCycle("monitor")
  \/ CycleIteration("monitor")
  \/ EndCycle("monitor")

RefreshCycle ==
  \/ BeginCycle("ui")
  \/ CycleIteration("ui")
  \/ EndCycle("ui")

NextPipeline ==
  \/ MenuBeginAdd
  \/ MenuFinishAdd
  \/ DaemonChangePipeline
  \/ MonitorCycle
  \/ RefreshCycle

SpecPipeline ==
  Init /\ [][NextPipeline]_vars

\* ------------------------------------------- a download folder of several files

\* the files a download folder may hold: an episode at its top, an episode
\* of the same name in a folder no regex matches, an episode in a season
\* folder, a text file, and a film in a folder nested in the season folder
WalkCandidates ==
  << [dir |-> <<>>, name |-> FileA, duration |-> Duration24],
     [dir |-> <<>>, name |-> FileN, duration |-> DurationNone],
     [dir |-> <<FolderPlain>>, name |-> FileA, duration |-> Duration24],
     [dir |-> <<FolderS2>>, name |-> FileB, duration |-> DurationNone],
     [dir |-> <<FolderS2, FolderOva>>, name |-> FileS3,
      duration |-> [ok |-> TRUE, secs |-> MovieThreshold + 1]] >>

\* the candidates at the indexes of picked, in the order of the walk (a
\* folder's files before the files of the folders in it)
RECURSIVE Listing(_, _)
Listing(picked, n) ==
  IF n = 0 THEN <<>>
  ELSE IF n \in picked THEN Append(Listing(picked, n - 1), WalkCandidates[n])
  ELSE Listing(picked, n - 1)

\* the download folder DL/T1 holding any of the candidates
WalkCatalogues ==
  {(<<DL, T1>> :> Listing(picked, Len(WalkCandidates))) :
     picked \in SUBSET (1..Len(WalkCandidates))}

InitWalk ==
  /\ db = AddAll(<< [infohash |-> HashUpper, title |-> TitleA, download_path |-> DefaultPath] >>)
  /\ library = EmptyLibrary
  /\ qb = [reachable |-> FALSE, login |-> FALSE, torrents |-> <<>>]
  /\ disk \in WalkCatalogues
  /\ called = NoResult
  /\ inflight = [t \in Threads |-> Idle]
  /\ monitor = MonitorOff
  /\ request = NoRequest

\* a call of sort_torrent_files_for_jellyfin for the download folder
PlanWalk ==
  /\ called = NoResult
  /\ called' = [op |-> "plan",
                plan |-> sort_torrent_files_for_jellyfin(db[1], <<DL, T1>>, disk[<<DL, T1>>])]
  /\ UNCHANGED <<db, library, qb, disk, inflight, monitor, request>>

\* a call of add_completed_torrent_to_library for the download folder
ApplyWalk ==
  /\ called.op # "apply"
  /\ \E io \in {NoFault, [NoFault EXCEPT !.link_fail = {FileB}]} :
       \E res \in {add_completed_torrent_to_library(
                     library, db[1], <<DL, T1>>, disk[<<DL, T1>>], io)} :
          /\ library' = res.fs
          /\ called' = [op |-> "apply", ok |-> res.ok, plan |-> res.plan,
                        created |-> res.created, existing |-> res.existing,
                        failed |-> res.failed]
  /\ UNCHANGED <<db, qb, disk, inflight, monitor, request>>

NextWalk ==
  \/ PlanWalk
  \/ ApplyWalk

SpecWalk ==
  InitWalk /\ [][NextWalk]_vars

\* ------------------------------------------- the store file read with errors

\* TorrentDatabase.load: the records of the file, or no record when the
\* file cannot be read or parsed (the except clause returns an empty store)
load(torrents, readable) ==
  IF readable THEN torrents ELSE <<>>

\* what called holds after a mutation: the records of the file before it,
\* whether load could read them, and the hash the mutation was about
Mutation(operation, readable, infohash) ==
  [op |-> "mutation", operation |-> operation, readable |-> readable,
   before |-> db, infohash |-> infohash]

\* add_torrent
StoreAdd ==
  /\ Len(db) < MaxTorrents
  /\ \E info \in TorrentInfos : \E readable \in BOOLEAN :
       \E loaded \in {load(db, readable)} :
          /\ db' = add_torrent(loaded, info)
          /\ called' = Mutation("add_torrent", readable, info.infohash)
  /\ UNCHANGED <<library, qb, disk, inflight, monitor, request>>

\* update_torrent_status for a tracked torrent
StoreUpdateStatus ==
  /\ \E k \in 1..Len(db) : \E readable \in BOOLEAN :
       \E loaded \in {load(db, readable)} :
          /\ db' = update_torrent_status(loaded, db[k].id, "added_to_library")
          /\ called' = Mutation("update_torrent_status", readable, db[k].infohash)
  /\ UNCHANGED <<library, qb, disk, inflight, monitor, request>>

\* remove_torrents_by_infohash for a tracked torrent
StoreRemove ==
  /\ \E k \in 1..Len(db) : \E readable \in BOOLEAN :
       \E loaded \in {load(db, readable)} :
          /\ db' = remove_torrents_by_infohash(loaded, db[k].infohash)
          /\ called' = Mutation("remove_torrents_by_infohash", readable, db[k].infohash)
  /\ UNCHANGED <<library, qb, disk, inflight, monitor, request>>

NextLoad ==
  \/ StoreAdd
  \/ StoreUpdateStatus
  \/ StoreRemove

SpecLoad ==
  Init /\ [][NextLoad]_vars

\* ------------------------------------------------------------------ claims

\* a and b are the same text up to the case of their letters
SameIgnoringCase(a, b) ==
  /\ Len(a) = Len(b)
  /\ \A i \in 1..Len(a) :
       \/ a[i] = b[i]
       \/ \E j \in 1..Len(UpperLetters) :
            {a[i], b[i]} = {UpperLetters[j], LowerLetters[j]}

\* C1: over a non-empty daemon listing, the view sync produces for a tracked
\* torrent has found_in_qb true exactly when the listing holds an entry whose
\* hash equals the torrent's infohash ignoring letter case; otherwise it has
\* found_in_qb false and qb_status 'not_found'
SyncFoundIffHashMatch ==
  [][(called'.op = "sync" /\ qb.reachable /\ qb.login /\ Len(qb.torrents) > 0) =>
       /\ Len(called'.result.synced) = Len(db)
       /\ \A i \in 1..Len(db) :
            /\ called'.result.synced[i].infohash = db[i].infohash
            /\ called'.result.synced[i].found_in_qb <=>
                 \E k \in 1..Len(qb.torrents) :
                    SameIgnoringCase(qb.torrents[k].hash, db[i].infohash)
            /\ called'.result.synced[i].found_in_qb \in BOOLEAN
            /\ ~called'.result.synced[i].found_in_qb =>
                 called'.result.synced[i].qb_status = "not_found"]_vars

\* a sync found a tracked torrent through a hash written in another case
SyncFoundOtherCase ==
  /\ called.op = "sync"
  /\ \E i \in 1..Len(called.result.synced) :
       /\ called.result.synced[i].found_in_qb
       /\ \A k \in 1..Len(qb.torrents) :
            qb.torrents[k].hash # called.result.synced[i].infohash

\* C2: when the reachability check fails, sync returns (None, reason) after
\* that one call, without login or listing, and the cycle built on it links
\* nothing, changes no store record and returns no completed torrent
UnreachableCycleDoesNothing ==
  [][(called'.op = "auto_add" /\ ~qb.reachable) =>
       /\ called'.none /\ called'.error # ""
       /\ called'.calls = <<"qb_check_connection">>
       /\ called'.completed = <<>> /\ called'.applied = {}
       /\ db' = db
       /\ library' = library]_vars

\* a cycle ran against an unreachable daemon with a tracked torrent in the store
UnreachableCycleRan ==
  /\ called.op = "auto_add"
  /\ ~qb.reachable
  /\ Len(db) > 0
  /\ called.calls = <<"qb_check_connection">>

\* the entry of the daemon listing sync pairs with the record at index i of
\* the store: the first whose hash equals its infohash ignoring case
DaemonEntries(i) ==
  {k \in 1..Len(qb.torrents) : SameIgnoringCase(qb.torrents[k].hash, db[i].infohash)}

\* the conditions of an auto-add cycle, for the record at index i of the store
MeetsConditions(i) ==
  /\ qb.reachable /\ qb.login
  /\ DaemonEntries(i) # {}
  /\ LET e == qb.torrents[CHOOSE k \in DaemonEntries(i) : \A j \in DaemonEntries(i) : k <= j]
     IN  /\ e.state \in {"completedDL", "uploading", "stalledUP", "queuedUP"}
         /\ db[i].status # "added_to_library"
         /\ db[i].title # MissingTitle /\ db[i].title # <<>>
         /\ e.save_path # <<>> /\ e.name # <<>>
         /\ (e.save_path \o <<e.name>>) \in DOMAIN disk

\* C3: a cycle plans and links a torrent only if it meets all the conditions,
\* and a torrent failing one of them is never linked and never has its status
\* changed
OnlyEligibleProcessed ==
  [][called'.op = "auto_add" =>
       \A i \in 1..Len(db) :
          ~MeetsConditions(i) =>
             /\ i \notin called'.applied
             /\ db'[i].status = db[i].status]_vars

\* C4: when a cycle links a torrent successfully, the record of that torrent
\* and of no other has been changed to 'added_to_library' at the end of the
\* cycle, and the torrent is in the list the cycle returns
LinkedTorrentMarked ==
  [][called'.op = "auto_add" =>
       /\ Len(db') = Len(db)
       /\ \A i \in 1..Len(db) :
            IF i \in called'.linked
              THEN /\ db'[i].status = "added_to_library"
                   /\ \E k \in 1..Len(called'.completed) :
                         /\ called'.completed[k].infohash = db[i].infohash
                         /\ called'.completed[k].title = db[i].title
              ELSE db'[i].status = db[i].status]_vars

\* C5: no two records of the store have the same id
IdsUnique ==
  \A i, j \in 1..Len(db) : i # j => db[i].id # db[j].id

\* the removal handlers
RemovalOps ==
  {"remove_entire_anime", "remove_specific_season", "remove_torrent_and_library_entry"}

\* C6: no removal operation deletes the library root folder itself, whatever
\* the title or the folder layout
RootNeverDeleted ==
  called.op \in RemovalOps => get_anime_folder \notin called.deleted

\* the resolved targets of the file entries of a plan
PlanTargets(plan) ==
  UNION {{Norm(plan.folders[f].files[k].target) : k \in 1..Len(plan.folders[f].files)} :
           f \in 1..Len(plan.folders)}

\* C8 as stated: a second call of apply with the same plan leaves the same
\* symlinks, both calls return true, and the second creates no link and
\* counts every target as present
ApplyTwiceSame ==
  [][(called'.op = "apply" /\ called'.again) =>
       /\ called'.prev_ok /\ called'.ok
       /\ library'.links = library.links
       /\ called'.created = {}
       /\ called'.existing = PlanTargets(called'.plan)]_vars

\* C8 amended: when the first call returned true and no symlink failed in
\* it, a second call with the same plan returns true, leaves the same
\* symlinks, creates no link and counts every target as present
ApplyTwiceSameAfterSuccess ==
  [][(called'.op = "apply" /\ called'.again
        /\ called'.prev_ok /\ called'.prev_failed = {}) =>
       /\ called'.ok
       /\ library'.links = library.links
       /\ called'.created = {}
       /\ called'.existing = PlanTargets(called'.plan)]_vars

\* apply ran a second time on a plan it had linked in full
AppliedTwice ==
  /\ called.op = "apply" /\ called.again
  /\ called.prev_ok /\ called.prev_failed = {}
  /\ called.existing # {}

\* C9: apply returns true exactly when every planned folder could be created
\* and at least one planned file was linked or found present at its target;
\* a symlink that fails does not by itself make it return false
ApplyTrueIffFoldersAndOneFile ==
  called.op = "apply" =>
    (called.ok <=>
       /\ \A f \in 1..Len(called.plan.folders) :
             Norm(called.plan.folders[f].path) \in library.dirs
       /\ \E t \in PlanTargets(called.plan) : \E l \in library.links : l.target = t)

\* apply returned true although a symlink failed
AppliedWithFailedLink ==
  /\ called.op = "apply"
  /\ called.ok
  /\ called.failed # {}

\* C10: a torrent's status is set to 'added_to_library' only on full success:
\* when a symlink failed during apply, or nothing could be read from the
\* download folder, its status stays as it was
StatusOnlyOnFullSuccess ==
  [][called'.op = "auto_add" =>
       \A i \in 1..Len(db) :
          (i \in called'.partial \/ i \in called'.applied \ called'.linked) =>
             db'[i].status = db[i].status]_vars

\* C7: when store mutations of the monitor and of the menus interleave, all
\* of them take effect: once they are done the store holds every torrent
\* added and not removed, no torrent that was removed, and every status
\* update that completed
StoreMutationsAllTakeEffect ==
  (called.op = "store" /\ \A t \in Threads : inflight[t] = Idle) =>
     /\ {db[k].infohash : k \in 1..Len(db)} = called.added \ called.removed
     /\ \A k \in 1..Len(db) :
          db[k].infohash \in called.marked => db[k].status = "added_to_library"

\* C11: removing a library title folder that holds a track.json removes the
\* record of the torrent the track.json names: after the removal the store
\* holds no record with that infohash
TrackedRecordRemovedWithFolder ==
  [][called'.op \in RemovalOps =>
       \A t \in library.tracks :
          t.folder \in called'.deleted =>
             \A k \in 1..Len(db') : db'[k].infohash # t.data.infohash]_vars

\* the track.json of the title folder the lookup read, if it is readable
ReadableTrack ==
  {t.data : t \in {u \in library.tracks :
                     u.folder = ProvenanceFolder /\ "infohash" \in DOMAIN u.data}}

\* the records whose infohash is the non-empty one track_data records
HashMatches(track_data) ==
  {k \in 1..Len(db) : track_data.infohash # <<>> /\ db[k].infohash = track_data.infohash}

\* the records whose download_path is the one track_data records
PathMatches(track_data) ==
  {k \in 1..Len(db) : Norm(db[k].download_path) = Norm(track_data.download_path)}

\* C12: the lookup gives the infohash priority over the download path: when
\* a tracked torrent has the infohash of track.json such a torrent is
\* returned whatever its position, a torrent is returned for its download
\* path only when none matches by infohash, and None is returned when
\* track.json is absent, unreadable or matches nothing
HashBeforePath ==
  called.op = "find_associated_torrent_by_track_json" =>
    /\ ReadableTrack = {} => called.found = 0
    /\ \A d \in ReadableTrack :
         /\ HashMatches(d) # {} => called.found \in HashMatches(d)
         /\ (HashMatches(d) = {} /\ PathMatches(d) # {}) => called.found \in PathMatches(d)
         /\ (HashMatches(d) = {} /\ PathMatches(d) = {}) => called.found = 0

\* C13: sync leaves the store as it was on every path: the record list and
\* every field of every record are the same before and after the call
SyncLeavesStore ==
  [][called'.op = "sync" => db' = db]_vars

\* sync merged the daemon's state into the view of a tracked torrent
SyncMergedTracked ==
  /\ called.op = "sync"
  /\ called.result.error = ""
  /\ \E i \in 1..Len(db) :
       /\ called.result.synced[i].found_in_qb
       /\ called.result.synced[i].qb_status # db[i].status

\* C14: neither apply nor a removal of a library folder creates, changes or
\* deletes a file under a download folder: the download area is after the
\* operation what it was before
DownloadAreaUntouched ==
  [][called'.op \in {"apply"} \cup RemovalOps => disk' = disk]_vars

\* the one file of the download folder of the planner specification
PlannedFile ==
  disk[<<DL, T1>>][1]

\* the plan holds that file once, in one folder directly below the title folder
PlannedOnce ==
  /\ called.plan.root = <<AnimeName, TitleA>>
  /\ Len(called.plan.folders) = 1
  /\ Len(called.plan.folders[1].path) = 3
  /\ SubSeq(called.plan.folders[1].path, 1, 2) = called.plan.root
  /\ Len(called.plan.folders[1].files) = 1
  /\ called.plan.folders[1].files[1].target
       = Append(called.plan.folders[1].path, PlannedFile.name)
  /\ called.plan.folders[1].files[1].source
       = (<<DL, T1>> \o PlannedFile.dir) \o <<PlannedFile.name>>

\* the name of the folder the file is planned into
PlannedFolder ==
  called.plan.folders[1].path[3]

\* the probe gave a duration strictly above 2400 seconds
LongerThanFortyMinutes ==
  PlannedFile.duration.ok /\ PlannedFile.duration.secs > 2400

\* C15: a video file whose probed duration is available and above 2400
\* seconds is planned under Movies whatever its folders and name are called;
\* a file of 2400 seconds or less, or whose probe failed, never is
MoviesIffLong ==
  called.op = "plan" =>
    /\ PlannedOnce
    /\ PlannedFolder = <<"M","o","v","i","e","s">> <=> LongerThanFortyMinutes

\* a file of more than 40 minutes below a season folder was planned
LongFileInSeasonFolderPlanned ==
  /\ called.op = "plan"
  /\ LongerThanFortyMinutes
  /\ PlannedFile.dir = <<FolderS2>>

\* the season number carried by the names of the planner specification that
\* match the season pattern, and the names that match the specials pattern
SeasonNames ==
  (FolderS2 :> "2") @@ (FileS3 :> "3")

SpecialsNames ==
  {FolderOva, FileSp}

\* 'Season 0' followed by the digit of a name that matches the season
\* pattern; 'Season 00' for a name that matches the specials pattern
FolderFor(name) ==
  IF name \in DOMAIN SeasonNames
    THEN <<"S","e","a","s","o","n"," ","0", SeasonNames[name]>>
    ELSE <<"S","e","a","s","o","n"," ","0","0">>

\* the positions of the enclosing folders that match either pattern
MatchingFolders ==
  {k \in 1..Len(PlannedFile.dir) :
     PlannedFile.dir[k] \in DOMAIN SeasonNames \cup SpecialsNames}

\* the deepest of them
NearestMatchingFolder ==
  CHOOSE k \in MatchingFolders : \A j \in MatchingFolders : j <= k

\* C16: for a file that is no movie the nearest enclosing folder that matches
\* the season or the specials pattern decides ('Season NN' with the number
\* padded to two digits, 'Season 00' for specials), and the file's own name
\* is consulted only when no enclosing folder matches
NearestFolderDecides ==
  (called.op = "plan" /\ ~LongerThanFortyMinutes) =>
    /\ PlannedOnce
    /\ MatchingFolders # {} =>
         PlannedFolder = FolderFor(PlannedFile.dir[NearestMatchingFolder])
    /\ (MatchingFolders = {} /\ PlannedFile.name \in DOMAIN SeasonNames \cup SpecialsNames) =>
         PlannedFolder = FolderFor(PlannedFile.name)

\* a file with a season in its name was planned from a specials folder that
\* lies in a season folder
NestedFoldersPlanned ==
  /\ called.op = "plan"
  /\ ~LongerThanFortyMinutes
  /\ PlannedFile.dir = <<FolderS2, FolderOva>>
  /\ PlannedFile.name = FileS3

\* C17: a video file that is no movie and has no season or specials token in
\* any folder of its path below the download folder nor in its own name is
\* planned under 'Season 01'
DefaultIsSeasonOne ==
  (/\ called.op = "plan"
   /\ ~LongerThanFortyMinutes
   /\ MatchingFolders = {}
   /\ PlannedFile.name \notin DOMAIN SeasonNames \cup SpecialsNames) =>
    /\ PlannedOnce
    /\ PlannedFolder = <<"S","e","a","s","o","n"," ","0","1">>

\* a file without any token was planned from a folder without any token
PlainFilePlanned ==
  /\ called.op = "plan"
  /\ PlannedFile.duration = [ok |-> TRUE, secs |-> 2400]
  /\ PlannedFile.dir = <<FolderPlain>>
  /\ PlannedFile.name = FileA

\* C18: when the download folder cannot be listed plan returns null, and the
\* caller treats the torrent as failed: apply returns false, nothing is
\* linked and the status of the torrent stays as it was
NullPlanWhenUnlistable ==
  called.op = "apply_unlistable" =>
    /\ called.plan.none
    /\ ~called.ok
    /\ library.links = {}
    /\ db[1].status = "added"

\* C19: a loop that was waiting between two cycles when stop was requested
\* leaves its loop without starting another cycle
StoppedWhileWaitingNeverCycles ==
  \A i \in 1..Len(monitor.loops) :
     monitor.loops[i].stopped_waiting => monitor.loops[i].pc # "cycle"

\* the i-th thread has just had a cycle that raised, and stop is not requested
FailedCycle(i) ==
  IF called.op = "monitor_cycle"
    THEN called.raised /\ called.loop = i /\ monitor.running
    ELSE FALSE

\* the position of the i-th thread
LoopAt(i) ==
  IF i <= Len(monitor.loops) THEN monitor.loops[i].pc ELSE "unstarted"

\* C20: a cycle that raised does not end the loop: while stop is not
\* requested the thread goes on to the wait loop and starts another cycle
FailedCycleIsFollowedByAnother ==
  \A i \in 1..MaxStarts :
     [](FailedCycle(i)
        => /\ LoopAt(i) # "done"
           /\ <>(LoopAt(i) = "cycle" \/ ~monitor.running))

\* a loop whose last cycle raised is in the cycle after it
CycleAfterFailedCycle ==
  \E i \in 1..Len(monitor.loops) :
     /\ monitor.loops[i].failed
     /\ monitor.loops[i].pc = "cycle"
     /\ monitor.running

\* the base backoff doubled k times
RECURSIVE Doubled(_, _)
Doubled(base, k) ==
  IF k = 0 THEN base ELSE Doubled(base + base, k - 1)

\* the most attempts of a call: one for the probe, three for the others
MostAttempts ==
  IF request.call = "check_connection" THEN 1 ELSE 3

\* C21: a daemon request makes at most max_retries + 1 attempts (one for the
\* probe, at most three otherwise) and none after a success; the wait before
\* retry k is the base backoff doubled k times; nothing is waited after the
\* last attempt, and after max_retries + 1 failed attempts the failure is raised
RetriesBoundedWithBackoff ==
  request.pc # "idle" =>
    /\ request.attempts <= request.max_retries + 1
    /\ request.attempts <= MostAttempts
    /\ request.pc = "attempt" => request.attempts < MostAttempts
    /\ Len(request.waits) <= request.attempts
    /\ \A k \in 1..Len(request.waits) :
          request.waits[k] = Doubled(REQUEST_RETRY_BACKOFF_SECONDS, k - 1)
    /\ request.pc = "sleep" => /\ Len(request.waits) = request.attempts - 1
                               /\ request.attempts < MostAttempts
    /\ request.pc \in {"returned", "raised"} => Len(request.waits) = request.attempts - 1
    /\ request.pc = "raised" => /\ request.attempts = MostAttempts
                                /\ request.last_exception \in RequestExceptions
    /\ request.pc = "returned" => request.attempts >= 1

\* a data call failed three times, with both waits, and raised
ThirdAttemptFailed ==
  /\ request.pc = "raised"
  /\ request.call = "get_torrent_info"
  /\ request.attempts = 3
  /\ request.waits = <<5, 10>>

\* the fields of the merged view that come from the daemon
DaemonFields ==
  {"found_in_qb", "qb_status", "qb_progress", "qb_downloaded", "qb_size",
   "qb_speed_dl", "qb_speed_up", "qb_eta", "qb_ratio", "qb_name", "qb_save_path"}

\* C22: no field of the merged view that comes from the daemon is in a
\* record of the store or in a track.json
DaemonFieldsNeverPersisted ==
  /\ \A i \in 1..Len(db) : DOMAIN db[i] \cap DaemonFields = {}
  /\ \A t \in library.tracks : DOMAIN t.data \cap DaemonFields = {}

\* the id and hash of the records a list holds
Records(torrents) ==
  {<<torrents[k].id, torrents[k].infohash>> : k \in 1..Len(torrents)}

\* C23: a cycle that begins after a cycle set a torrent's status to
\* 'added_to_library' reads that status if it reads the record at all, and
\* does not report the torrent as newly completed
MarkedStatusDurable ==
  \A t \in Threads :
     inflight[t].op = "auto_add" =>
       /\ \A k \in 1..Len(inflight[t].synced) :
             <<inflight[t].synced[k].id, inflight[t].synced[k].infohash>> \in inflight[t].before
               => inflight[t].synced[k].status = "added_to_library"
       /\ Records(inflight[t].completed) \cap inflight[t].before = {}

\* the entries of a plan: [folder, source, target], one for each file of
\* each folder entry
PlanEntries(plan) ==
  UNION {{[k |-> k, j |-> j, folder |-> plan.folders[k].path,
           source |-> plan.folders[k].files[j].source,
           target |-> plan.folders[k].files[j].target] :
            j \in 1..Len(plan.folders[k].files)} : k \in 1..Len(plan.folders)}

\* the files of the download folder that have a video extension
VideosOnDisk ==
  {i \in 1..Len(disk[<<DL, T1>>]) : disk[<<DL, T1>>][i].name \in {FileA, FileB, FileS3}}

\* the path of the i-th file of the download folder
PathOnDisk(i) ==
  (<<DL, T1>> \o disk[<<DL, T1>>][i].dir) \o <<disk[<<DL, T1>>][i].name>>

\* C24: the plan holds each video file under the download folder in exactly
\* one entry, with its own path as source and its name below the target
\* folder as target; it holds nothing else, and no folder entry is empty
EveryVideoPlannedOnce ==
  called.op = "plan" =>
    /\ \A i \in VideosOnDisk :
          /\ Cardinality({e \in PlanEntries(called.plan) : e.source = PathOnDisk(i)}) = 1
          /\ \A e \in PlanEntries(called.plan) :
                e.source = PathOnDisk(i)
                  => e.target = Append(e.folder, disk[<<DL, T1>>][i].name)
    /\ \A e \in PlanEntries(called.plan) : \E i \in VideosOnDisk : e.source = PathOnDisk(i)
    /\ Cardinality(PlanEntries(called.plan)) = Cardinality(VideosOnDisk)
    /\ \A k \in 1..Len(called.plan.folders) : Len(called.plan.folders[k].files) > 0

\* a folder of all five files was planned: four videos at three depths and
\* a text file
FiveFilesPlanned ==
  /\ called.op = "plan"
  /\ Len(disk[<<DL, T1>>]) = 5
  /\ Cardinality(PlanEntries(called.plan)) = 4

\* the entries of the plan that apply counted: their link was made, or
\* their target was there already
CountedEntries ==
  {e \in PlanEntries(called.plan) : Norm(e.target) \in called.created \cup called.existing}

\* C26: after apply returned true, every entry of the plan that was counted
\* has at its target a symlink to its own source
CountedLinksPointToOwnSource ==
  (called.op = "apply" /\ called.ok) =>
     \A e \in CountedEntries :
        \E l \in library.links : l.target = Norm(e.target) /\ l.source = e.source

\* C25: two cycles that ran alongside one another, one in the monitor thread
\* and one in the auto-refresh view, return no torrent in common
ConcurrentCyclesReportOnce ==
  called.op = "cycles" =>
     \A r1 \in called.reports : \A r2 \in called.reports :
        (r1.thread # r2.thread /\ r2.cycle \in r1.overlaps)
          => r1.completed \cap r2.completed = {}

\* C27: the title folder a plan is made for lies strictly inside the anime
\* library root
PlanRootStrictlyInsideLibrary ==
  called.op = "apply" =>
     LET root == Norm(get_anime_folder)
         planned == Norm(called.plan.root)
     IN  /\ Len(planned) > Len(root)
         /\ SubSeq(planned, 1, Len(root)) = root

\* C28: for every tracked torrent with status 'added_to_library', the
\* track.json of its title folder records its hash
MarkedTorrentOwnsTrack ==
  \A k \in 1..Len(db) :
     db[k].status = "added_to_library" =>
        \E t \in library.tracks :
           /\ t.folder = Norm(anime_main_folder(db[k]))
           /\ "infohash" \in DOMAIN t.data
           /\ t.data.infohash = db[k].infohash

\* C29: a mutation whose load failed leaves in the store every record that
\* was in the file before it, but for the record a removal is about
FailedLoadKeepsRecords ==
  (called.op = "mutation" /\ ~called.readable) =>
     \A k \in 1..Len(called.before) :
        \/ \E j \in 1..Len(db) : /\ db[j].id = called.before[k].id
                                 /\ db[j].infohash = called.before[k].infohash
        \/ /\ called.operation = "remove_torrents_by_infohash"
           /\ called.before[k].infohash = called.infohash

\* C30: at most one monitor loop is in a reconciliation cycle at any time
AtMostOneLoopCycling ==
  Cardinality({i \in 1..Len(monitor.loops) : monitor.loops[i].pc = "cycle"}) <= 1

=============================================================================
